---- MODULE Spec2Model ----
(***************************************************************************)
(* Smart irrigation control loop of apps/ai/services/irrigation_service.py *)
(* (SmartIrrigationService, PlantKnowledgeBase) and of the Flask routes of *)
(* apps/ai/app_service.py that call it.                                    *)
(*                                                                         *)
(* Units.  Python floats are modelled by scaled integers: a moisture or a  *)
(* temperature is in hundredths (60 % is 6000, 30 degrees is 3000), a      *)
(* duration in hundredths of a second (1.0 s is 100).  With these units    *)
(* every product and comparison of the code is exact integer arithmetic.   *)
(*                                                                         *)
(* Specifications.                                                         *)
(*   SpecDecide  one run of configure, reload-config and analyze on inputs *)
(*               drawn in the initial state: the decision function.        *)
(*   SpecApi     the service called sequentially, in any order.            *)
(*   Spec        two request threads of /irrigation/configure and          *)
(*               /irrigation/execute, interleaved at the blocking calls of *)
(*               execute_irrigation.                                       *)
(*   SpecTick    one request thread and the monitoring thread with its     *)
(*               pulses.                                                   *)
(*   SpecMon     two request threads that start and stop monitoring, and   *)
(*               the monitoring threads they create.                       *)
(*   SpecGate    one request thread that starts and stops monitoring, the  *)
(*               monitoring threads, the forecaster and the wall clock:    *)
(*               the prediction gate.                                      *)
(*   SpecReload  one request thread that starts monitoring, reloads the    *)
(*               config and analyzes, and the monitoring thread.           *)
(*   SpecErr     one request thread whose requests name configured and     *)
(*               unconfigured greenhouses, and the monitoring thread.      *)
(***************************************************************************)
EXTENDS Integers, Sequences, FiniteSets, TLC

(***************************************************************************)
(* Values                                                                  *)
(***************************************************************************)
\* An optional value: None is the empty tuple, a present value v is <<v>>.
None == <<>>

Some(v) == <<v>>

Val(o) == o[1]

Pct(p) == p * 100

Sec(s) == s * 100

Max2(a, b) == IF a >= b THEN a ELSE b

Min2(a, b) == IF a <= b THEN a ELSE b

\* Python int(a / b) for b # 0: the quotient truncated towards zero.
TruncDiv(a, b) ==
  LET q == (IF a < 0 THEN -a ELSE a) \div (IF b < 0 THEN -b ELSE b)
  IN IF (a < 0) = (b < 0) THEN q ELSE -q

\* Python truthiness of an optional number: None and 0 are false.
Truthy(x) == x # None /\ Val(x) # 0

\* Python "x or d".
OrDefault(x, d) == IF Truthy(x) THEN Val(x) ELSE d

(***************************************************************************)
(* PlantKnowledgeBase                                                      *)
(***************************************************************************)
PlantKeys ==
  {"default", "tomato", "lettuce", "pepper", "basil", "strawberry",
   "cucumber", "herbs"}

Band(lo, ideal, hi) == [min |-> Pct(lo), ideal |-> Pct(ideal), max |-> Pct(hi)]

PLANT_IDEAL_MOISTURE ==
  [k \in PlantKeys |->
     CASE k = "default"    -> Band(40, 60, 80)
       [] k = "tomato"     -> Band(50, 70, 85)
       [] k = "lettuce"    -> Band(60, 75, 90)
       [] k = "pepper"     -> Band(45, 65, 80)
       [] k = "basil"      -> Band(40, 60, 75)
       [] k = "strawberry" -> Band(55, 70, 85)
       [] k = "cucumber"   -> Band(60, 75, 90)
       [] k = "herbs"      -> Band(35, 55, 70)]

\* str.lower() on the plant tags the model uses; "" stands for None and "".
Lower(s) ==
  CASE s = "Tomato" -> "tomato"
    [] s = "HERBS"  -> "herbs"
    [] OTHER        -> s

get_ideal_moisture(plant_type) ==
  LET plant_key == IF plant_type # "" THEN Lower(plant_type) ELSE "default"
  IN IF plant_key \in PlantKeys
     THEN PLANT_IDEAL_MOISTURE[plant_key]
     ELSE PLANT_IDEAL_MOISTURE["default"]

\* The factors are in percent: 1.0 is 100, 0.9 is 90, 1.1 is 110.
time_factor(time_of_day) == IF 6 <= time_of_day /\ time_of_day <= 18 THEN 100 ELSE 90

temp_factor(temperature) ==
  IF temperature > Pct(30) THEN 110
  ELSE IF temperature < Pct(20) THEN 90
  ELSE 100

calculate_target_moisture_noclamp(plant_type, time_of_day, temperature) ==
  (get_ideal_moisture(plant_type).ideal * time_factor(time_of_day)
     * temp_factor(temperature)) \div 10000

calculate_target_moisture(plant_type, time_of_day, temperature) ==
  LET ideal == get_ideal_moisture(plant_type)
      target == (ideal.ideal * time_factor(time_of_day)
                   * temp_factor(temperature)) \div 10000
  IN Max2(ideal.min, Min2(ideal.max, target))


(***************************************************************************)
(* SmartIrrigationService: constants, configuration, decision              *)
(***************************************************************************)
DEFAULT_PULSE_DURATION == Sec(1)

DEFAULT_PULSE_WAIT == 30

DEFAULT_MAX_PULSES == 15

DEFAULT_CHECK_INTERVAL == 300

\* configure_greenhouse with the missing target defaulted to 50, the default
\* the monitoring code uses (lines 698, 781), instead of the plant's ideal.
configure_greenhouse_config_target50(a) ==
  [esp32_url      |-> [ip |-> a.esp32_ip, port |-> a.esp32_port],
   plant_type     |-> a.plant_type,
   pulse_duration |-> OrDefault(a.pulse_duration, Sec(1)),
   pulse_wait     |-> OrDefault(a.pulse_wait, 30),
   max_pulses     |-> OrDefault(a.max_pulses, 15),
   auto_irrigate  |-> a.auto_irrigate,
   check_interval |-> OrDefault(a.check_interval, 300),
   target_moisture |->
     IF a.target_moisture = None THEN Pct(50) ELSE Val(a.target_moisture)]

\* The dict built by configure_greenhouse (configured_at, a time stamp that
\* nothing reads, is left out).  a is the record of the call's arguments.
configure_greenhouse_config(a) ==
  [esp32_url      |-> [ip |-> a.esp32_ip, port |-> a.esp32_port],
   plant_type     |-> a.plant_type,
   pulse_duration |-> OrDefault(a.pulse_duration, DEFAULT_PULSE_DURATION),
   pulse_wait     |-> OrDefault(a.pulse_wait, DEFAULT_PULSE_WAIT),
   max_pulses     |-> OrDefault(a.max_pulses, DEFAULT_MAX_PULSES),
   auto_irrigate  |-> a.auto_irrigate,
   check_interval |-> OrDefault(a.check_interval, DEFAULT_CHECK_INTERVAL),
   target_moisture |->
     IF a.target_moisture = None
     THEN get_ideal_moisture(a.plant_type).ideal
     ELSE Val(a.target_moisture)]

\* config.get(field, default) on Some(config dict) or on None, the empty dict.
CfgGet(config, field, default) ==
  IF config = None THEN default ELSE Val(config)[field]

\* The decision returned when no reading could be fetched (lines 339-350).
\* The variant ErrorDecisionIrrigates asks for one pulse.
ErrorDecisionIrrigates ==
  [needs_irrigation |-> TRUE, current_moisture |-> 0, target_moisture |-> 0,
   predicted_moisture |-> None, confidence |-> 80, recommendation |-> "erro",
   lstm_note |-> FALSE, urgency |-> "low", pulse_count |-> 1,
   pulse_duration |-> 0]

ErrorDecision ==
  [needs_irrigation |-> FALSE, current_moisture |-> 0, target_moisture |-> 0,
   predicted_moisture |-> None, confidence |-> 0, recommendation |-> "erro",
   lstm_note |-> FALSE, urgency |-> "low", pulse_count |-> 0,
   pulse_duration |-> 0]

SumFirst(s, n) == IF n = 0 THEN 0 ELSE s[1] + (IF n = 1 THEN 0 ELSE
                  s[2] + (IF n = 2 THEN 0 ELSE s[3] + (IF n = 3 THEN 0 ELSE
                  s[4] + (IF n = 4 THEN 0 ELSE s[5] + (IF n = 5 THEN 0 ELSE s[6])))))

\* np.mean(predictions[:6]), rounded down to the model's hundredth; the
\* variant MeanFirst3 is the mean of predictions[:3].
MeanFirst3(predictions) == SumFirst(predictions, 3) \div 3

MeanFirst6(predictions) ==
  LET n == Min2(6, Len(predictions))
  IN SumFirst(predictions, n) \div n

\* The (urgency, confidence) chosen for a deficit with inclusive thresholds.
urgency_confidence_inclusive(moisture_deficit) ==
  IF moisture_deficit <= 0 THEN [urgency |-> "low", confidence |-> 85]
  ELSE IF moisture_deficit >= Pct(30) THEN [urgency |-> "critical", confidence |-> 95]
  ELSE IF moisture_deficit >= Pct(15) THEN [urgency |-> "high", confidence |-> 90]
  ELSE IF moisture_deficit >= Pct(5) THEN [urgency |-> "medium", confidence |-> 85]
  ELSE [urgency |-> "low", confidence |-> 80]

\* The urgency and confidence analyze_irrigation_need assigns: the initial
\* values when the deficit is not positive, else the first branch that matches.
urgency_confidence(moisture_deficit) ==
  IF ~(moisture_deficit > 0) THEN [urgency |-> "low", confidence |-> 85]
  ELSE IF moisture_deficit > Pct(30) THEN [urgency |-> "critical", confidence |-> 95]
  ELSE IF moisture_deficit > Pct(15) THEN [urgency |-> "high", confidence |-> 90]
  ELSE IF moisture_deficit > Pct(5) THEN [urgency |-> "medium", confidence |-> 85]
  ELSE [urgency |-> "low", confidence |-> 80]

\* int(deficit / effect) rounded up instead of cut, plus 1.
pulses_needed_ceil(moisture_deficit, pulse_duration) ==
  TruncDiv(2 * moisture_deficit + 3 * pulse_duration - 1, 3 * pulse_duration) + 1

pulses_needed_of(moisture_deficit, pulse_duration) ==
  \* effect_per_pulse = 1.5 * pulse_duration; int(deficit / effect) + 1
  TruncDiv(2 * moisture_deficit, 3 * pulse_duration) + 1

pulse_count_noclamp(moisture_deficit, pulse_duration, max_pulses) ==
  Max2(1, pulses_needed_of(moisture_deficit, pulse_duration))

pulse_count_of(moisture_deficit, pulse_duration, max_pulses) ==
  Max2(1, Min2(pulses_needed_of(moisture_deficit, pulse_duration), max_pulses))

\* analyze_irrigation_need after the reading and the forecast were fetched:
\* config is Some(dict) or None ({}), reading Some(reading) or None,
\* predictions Some(sequence) or None, hour is datetime.now().hour.
analyze_irrigation_need(config, reading, predictions, hour) ==
  IF reading = None THEN ErrorDecision
  ELSE
    LET r == Val(reading)
        plant_type == CfgGet(config, "plant_type", "default")
        current_moisture == r.soil_moisture
        target_moisture ==
          \* config.get('target_moisture') is None exactly for the empty dict:
          \* configure_greenhouse always stores a number (lines 210-212).
          IF config = None
          THEN calculate_target_moisture(plant_type, hour, r.air_temperature)
          ELSE Val(config).target_moisture
        pulse_duration == CfgGet(config, "pulse_duration", DEFAULT_PULSE_DURATION)
        max_pulses == CfgGet(config, "max_pulses", DEFAULT_MAX_PULSES)
        moisture_deficit == target_moisture - current_moisture
        needs_irrigation == moisture_deficit > 0
        has_pred == predictions # None /\ Len(Val(predictions)) > 0
    IN [needs_irrigation |-> needs_irrigation,
        current_moisture |-> current_moisture,
        target_moisture |-> target_moisture,
        predicted_moisture |->
          IF has_pred THEN Some(MeanFirst6(Val(predictions))) ELSE None,
        confidence |-> urgency_confidence(moisture_deficit).confidence,
        recommendation |->
          IF ~needs_irrigation THEN "ok"
          ELSE IF moisture_deficit > Pct(30) THEN "critico"
          ELSE IF moisture_deficit > Pct(15) THEN "urgente"
          ELSE IF moisture_deficit > Pct(5) THEN "recomendado"
          ELSE "ajuste fino",
        lstm_note |-> has_pred /\ needs_irrigation /\ Val(predictions)[1] # 0,
        urgency |-> urgency_confidence(moisture_deficit).urgency,
        pulse_count |->
          IF needs_irrigation
          THEN pulse_count_of(moisture_deficit, pulse_duration, max_pulses)
          ELSE 0,
        pulse_duration |-> pulse_duration]


(***************************************************************************)
(* State                                                                   *)
(***************************************************************************)
VARIABLES
  status,                \* self.status
  reading_history,       \* self.reading_history: dict id -> list
  last_irrigation,       \* self.last_irrigation: dict id -> time
  irrigation_config,     \* self.irrigation_config: dict id -> config dict
  monitor_thread,        \* self._monitor_thread
  stop_event,            \* self._stop_event
  monitored_greenhouses, \* self._monitored_greenhouses: dict id -> info
  lstm_model,            \* self.lstm_model is not None
  inp,                   \* SpecDecide: the inputs drawn for one run
  resp,                  \* the response of the last sequential API call
  pc, loc,               \* request threads: position and locals
  mpc, mloc,             \* monitoring threads: position and locals
  now,                   \* wall clock
  pred_log               \* backend: accepted prediction notifications

vars ==
  <<status, reading_history, last_irrigation, irrigation_config, monitor_thread,
    stop_event, monitored_greenhouses, lstm_model, inp, resp, pc, loc,
    mpc, mloc, now, pred_log>>

GH == {"g1", "g2"}

\* Python dict assignment d[k] = v.
DictPut(d, k, v) == (k :> v) @@ d

\* Python "del d[k]".
DictDel(d, k) == [x \in (DOMAIN d) \ {k} |-> d[x]]

EmptyDict == << >>

HISTORY_KEEP == 100

\* A sensor reading of the backend.  reading_history keeps of a reading its
\* time stamp ts only: the values of stored readings are read by the forecaster
\* alone, whose output the model leaves open.
Reading(soil, temp, hum, ts) ==
  [soil_moisture |-> soil, air_temperature |-> temp, air_humidity |-> hum,
   soil_temperature |-> Pct(20), ts |-> ts]

LastN(s, n) == IF Len(s) <= n THEN s ELSE SubSeq(s, Len(s) - n + 1, Len(s))

\* _load_historical_data: rows is Some(the rows of the backend's answer, as
\* time stamps, oldest first) or None (no answer, not 200, success false).
load_historical_data(history, rows) ==
  IF rows = None THEN history ELSE history \o Val(rows)

\* get_current_reading's update of one greenhouse's history: the version
\* without the cut to the last 100 is get_current_reading_nocut.
get_current_reading_nocut(hist, g, reading) ==
  IF reading = None THEN hist
  ELSE LET h0 == IF g \in DOMAIN hist THEN hist[g] ELSE << >>
       IN DictPut(hist, g, Append(h0, Val(reading).ts))

get_current_reading(hist, g, reading) ==
  IF reading = None THEN hist
  ELSE LET h0 == IF g \in DOMAIN hist THEN hist[g] ELSE << >>
           h1 == Append(h0, Val(reading).ts)
       IN DictPut(hist, g, IF Len(h1) > HISTORY_KEEP THEN LastN(h1, HISTORY_KEEP) ELSE h1)

\* The forecasts the model lets the LSTM return (12 values, percent * 100).
Forecasts ==
  { [i \in 1..12 |-> Pct(60) - (i - 1) * Pct(4)],
    [i \in 1..12 |-> Pct(70)],
    [i \in 1..12 |-> IF i = 1 THEN 0 ELSE Pct(30)] }

\* predict_moisture: None without a model, with fewer than 24 readings, or
\* when the model raises; else the model's output.
predict_moisture(hist, g) ==
  IF ~lstm_model \/ g \notin DOMAIN hist \/ Len(hist[g]) < 24
  THEN {None}
  ELSE {None} \cup {Some(f) : f \in Forecasts}


(***************************************************************************)
(* Inputs                                                                  *)
(***************************************************************************)
\* max_pulses arguments run over None and -1 .. MaxPulsesIn.
MaxPulsesIn == 3

\* The backend's history answer holds up to MaxRows rows.
MaxRows == 101

Rows(n) == [i \in 1..n |-> 0]

OptMaxPulses == {None} \cup {Some(n) : n \in -1..MaxPulsesIn}

\* The arguments of configure_greenhouse drawn by SpecDecide.
DecideArgs ==
  [esp32_ip : {"10.0.0.7"}, esp32_port : {8080},
   plant_type : {"tomato", "Tomato", "orchid", "lettuce", ""},
   pulse_duration : {None, Some(Sec(2)), Some(50)}, pulse_wait : {None},
   max_pulses : OptMaxPulses, auto_irrigate : {FALSE},
   check_interval : {None},
   target_moisture : {None, Some(Pct(20)), Some(Pct(70)), Some(Pct(95))}]

DecideReadings ==
  {Reading(m, t, Pct(50), 0) :
     m \in {Pct(20), Pct(40), Pct(52), Pct(55), Pct(68), Pct(70), Pct(90)},
     t \in {Pct(15), Pct(25), Pct(35)}}

DecideHours == {3, 12}

\* The answer of GET /greenhouses/ai/irrigation-config.
BackendConfigs ==
  [greenhouseId : {"g1"}, plantType : {"lettuce"},
   soilMoistureIdeal : {None, Some(Pct(72))},
   soilMoistureMin : {Pct(30)}, soilMoistureMax : {Pct(70)}]

\* datetime.now().hour of the analyses the threads make.
HourOfDay == 12

NoInput ==
  [args |-> None, rows |-> None, backend |-> None, reading |-> None, hour |-> 0]

NoResp == [op |-> "none", code |-> 0, decision |-> None]

(***************************************************************************)
(* The service's methods as state changes (called without interleaving)    *)
(***************************************************************************)
\* configure_greenhouse(g, **a); rows is the backend's history answer.
ConfigureGreenhouse(g, a, rows) ==
  /\ irrigation_config' = DictPut(irrigation_config, g, configure_greenhouse_config(a))
  /\ reading_history' =
       IF g \notin DOMAIN reading_history
       THEN DictPut(reading_history, g, load_historical_data(<< >>, rows))
       ELSE reading_history

\* The config dict analyze_irrigation_need works on: irrigation_config.get(g, {}).
\* The variant ConfigOfMonitored is the dict the entry of _monitored_greenhouses
\* holds, for a monitored greenhouse.
ConfigOfMonitored(g) ==
  IF g \in DOMAIN monitored_greenhouses THEN Some(monitored_greenhouses[g].config)
  ELSE IF g \in DOMAIN irrigation_config THEN Some(irrigation_config[g])
  ELSE None

ConfigOf(g) ==
  IF g \in DOMAIN irrigation_config THEN Some(irrigation_config[g]) ELSE None

\* The decisions analyze_irrigation_need(g) can return once the reading was
\* fetched and stored (hist_after): one for each answer of predict_moisture.
AnalyzeDecisions(hist_after, g, reading, hour) ==
  {analyze_irrigation_need(ConfigOf(g), reading, predictions, hour) :
     predictions \in predict_moisture(hist_after, g)}

(***************************************************************************)
(* Sequential API: the Flask routes and direct calls of the service        *)
(***************************************************************************)
ApiFrame ==
  UNCHANGED <<status, last_irrigation, monitor_thread, stop_event,
              monitored_greenhouses, lstm_model, inp, pc, loc, mpc, mloc, now,
              pred_log>>

\* POST /irrigation/configure
ApiConfigure(g, a, rows) ==
  /\ ConfigureGreenhouse(g, a, rows)
  /\ resp' = [op |-> "configure", code |-> 200, decision |-> None]
  /\ ApiFrame

\* POST /irrigation/analyze; reading is the backend's answer to /latest.  The
\* variant ApiAnalyzeFetchFirst fetches the reading before it looks for the
\* config.
ApiAnalyzeFetchFirst(g, reading, hour) ==
  /\ reading_history' = get_current_reading(reading_history, g, reading)
  /\ IF g \notin DOMAIN irrigation_config
     THEN resp' = [op |-> "analyze", code |-> 400, decision |-> None]
     ELSE \E d \in AnalyzeDecisions(reading_history', g, reading, hour) :
            resp' = [op |-> "analyze", code |-> 200, decision |-> Some(d)]
  /\ UNCHANGED irrigation_config
  /\ ApiFrame

ApiAnalyze(g, reading, hour) ==
  /\ IF g \notin DOMAIN irrigation_config
     THEN /\ resp' = [op |-> "analyze", code |-> 400, decision |-> None]
          /\ UNCHANGED reading_history
     ELSE /\ reading_history' = get_current_reading(reading_history, g, reading)
          /\ \E d \in AnalyzeDecisions(reading_history', g, reading, hour) :
               resp' = [op |-> "analyze", code |-> 200, decision |-> Some(d)]
  /\ UNCHANGED irrigation_config
  /\ ApiFrame

\* analyze_irrigation_need(g) called on the service itself
ServiceAnalyze(g, reading, hour) ==
  /\ reading_history' = get_current_reading(reading_history, g, reading)
  /\ \E d \in AnalyzeDecisions(reading_history', g, reading, hour) :
       resp' = [op |-> "service_analyze", code |-> 200, decision |-> Some(d)]
  /\ UNCHANGED irrigation_config
  /\ ApiFrame

\* GET /irrigation/status?greenhouseId=g: get_status analyzes when the
\* greenhouse has a history
ApiStatus(g, reading, hour) ==
  /\ IF g \in DOMAIN reading_history /\ Len(reading_history[g]) > 0
     THEN /\ reading_history' = get_current_reading(reading_history, g, reading)
          /\ \E d \in AnalyzeDecisions(reading_history', g, reading, hour) :
               resp' = [op |-> "status", code |-> 200, decision |-> Some(d)]
     ELSE /\ resp' = [op |-> "status", code |-> 200, decision |-> None]
          /\ UNCHANGED reading_history
  /\ UNCHANGED irrigation_config
  /\ ApiFrame

\* os.getenv('ESP32_IP', ''): the variable is not set.
ENV_ESP32_IP == ""

\* The arguments reload_irrigation_config passes to configure_greenhouse.
reload_args(existing, bc, esp32_ip) ==
  [esp32_ip |-> esp32_ip, esp32_port |-> 8080, plant_type |-> bc.plantType,
   pulse_duration |-> Some(existing.pulse_duration),
   pulse_wait |-> Some(existing.pulse_wait),
   max_pulses |-> Some(existing.max_pulses),
   auto_irrigate |-> TRUE, check_interval |-> None,
   target_moisture |->
     IF bc.soilMoistureIdeal # None THEN bc.soilMoistureIdeal
     ELSE Some((bc.soilMoistureMin + bc.soilMoistureMax) \div 2)]

\* POST /irrigation/reload-config; greq is the requested id ("" for none),
\* backend_config the backend's answer (None when it could not be fetched)
ApiReload(greq, backend_config, rows) ==
  /\ IF backend_config = None
     THEN /\ resp' = [op |-> "reload", code |-> 400, decision |-> None]
          /\ UNCHANGED <<irrigation_config, reading_history>>
     ELSE LET bc == Val(backend_config)
              g == bc.greenhouseId
          IN IF greq # "" /\ g # greq
             THEN /\ resp' = [op |-> "reload", code |-> 404, decision |-> None]
                  /\ UNCHANGED <<irrigation_config, reading_history>>
             ELSE IF g \notin DOMAIN irrigation_config
             THEN \* no existing esp32_url and no ESP32_IP in the environment
                  /\ ENV_ESP32_IP = ""
                  /\ resp' = [op |-> "reload", code |-> 400, decision |-> None]
                  /\ UNCHANGED <<irrigation_config, reading_history>>
             ELSE /\ ConfigureGreenhouse(g,
                       reload_args(irrigation_config[g], bc,
                                   irrigation_config[g].esp32_url.ip), rows)
                  /\ resp' = [op |-> "reload", code |-> 200, decision |-> None]
  /\ ApiFrame

(***************************************************************************)
(* Threads                                                                 *)
(***************************************************************************)
Workers == {"h1", "h2"}

Monitors == {"m1", "m2"}

NoThread == "none"

\* time.time() when the service is constructed, in seconds.
Epoch == 10000

InitService ==
  /\ status = "idle"
  /\ reading_history = EmptyDict
  /\ last_irrigation = EmptyDict
  /\ irrigation_config = EmptyDict
  /\ monitor_thread = NoThread
  /\ stop_event = FALSE
  /\ monitored_greenhouses = EmptyDict
  /\ resp = NoResp
  /\ now = Epoch
  /\ pred_log = EmptyDict

\* The locals of a request thread, and what the model records of one request:
\* invoked (execute_irrigation was called), failed (an activation was rejected
\* or raised), sent_after_failure (an activation was sent after that), busy_at_entry
\* (another sequence for the same greenhouse was running when execute_irrigation
\* was entered), stopped_after (the number of activations sent when the re-read
\* broke the loop, 0 when it did not), reports (the reports posted),
\* report_answers (what the backend answered to each), started (the
\* parameters of the sequence when it entered its loop), used (those of the
\* last activation sent), sent and accepted (the activations requested and
\* those the ESP32 answered with 200), total_duration (of the IrrigationResult),
\* report_duration_ms (durationMs of the report), fetched (the readings the
\* thread's calls of get_current_reading have appended), kept (the slice
\* [-100:] such a call has computed and not yet stored), result (what the
\* route returns).
IdleLoc ==
  [g |-> "", decision |-> None, config |-> None, i |-> 0,
   pulses_executed |-> 0, invoked |-> FALSE,
   failed |-> FALSE, sent_after_failure |-> FALSE,
   busy_at_entry |-> FALSE, stopped_after |-> 0, reports |-> << >>,
   report_answers |-> << >>, started |-> None, used |-> None,
   sent |-> 0, accepted |-> 0, total_duration |-> 0, report_duration_ms |-> 0,
   fetched |-> << >>, kept |-> None, result |-> None]

\* The locals of a monitoring thread: the snapshot still to scan, the
\* greenhouse and config of the pulse being sent, last_prediction_time, the
\* interval of the last sleep, the reports of the last pulse, and signalled
\* (stop_monitoring() has set the stop event since the thread was started).
NewMonitorLoc ==
  [todo |-> EmptyDict, g |-> "", config |-> None, decision |-> None,
   last_prediction_time |-> EmptyDict, check_interval |-> 0, di_used |-> 0,
   fetched |-> << >>, kept |-> None, reports |-> << >>, signalled |-> FALSE]

InitThreads ==
  /\ pc = [w \in Workers |-> "idle"]
  /\ loc = [w \in Workers |-> IdleLoc]
  /\ mpc = [m \in Monitors |-> "unborn"]
  /\ mloc = [m \in Monitors |-> NewMonitorLoc]

(***************************************************************************)
(* SpecDecide: one run of configure, reload-config, analyze on drawn inputs *)
(***************************************************************************)
InitDecide ==
  /\ InitService /\ InitThreads /\ lstm_model = TRUE
  /\ inp \in [args : {None} \cup {Some(a) : a \in DecideArgs},
              rows : {Some(Rows(0)), Some(Rows(HISTORY_KEEP))},
              backend : {None} \cup {Some(b) : b \in BackendConfigs},
              reading : {None} \cup {Some(r) : r \in DecideReadings},
              hour : DecideHours]

DConfigure ==
  /\ resp.op = "none" /\ inp.args # None
  /\ ApiConfigure("g1", Val(inp.args), inp.rows)

DReload ==
  /\ resp.op = "configure" /\ inp.backend # None
  /\ ApiReload("g1", inp.backend, None)

DAnalyze ==
  /\ resp.op \in {"configure", "reload"}
  /\ ApiAnalyze("g1", inp.reading, inp.hour)

DServiceAnalyze ==
  /\ resp.op = "none" /\ inp.args = None
  /\ ServiceAnalyze("g1", inp.reading, inp.hour)

NextDecide == DConfigure \/ DReload \/ DAnalyze \/ DServiceAnalyze

SpecDecide == InitDecide /\ [][NextDecide]_vars


(***************************************************************************)
(* SpecApi: any sequence of configure, reload-config, analyze and status   *)
(* calls, one at a time, on two greenhouses                                *)
(***************************************************************************)
ApiArgs ==
  [esp32_ip : {"10.0.0.7"}, esp32_port : {8080}, plant_type : {"tomato"},
   pulse_duration : {None}, pulse_wait : {None}, max_pulses : {Some(2)},
   auto_irrigate : {FALSE}, check_interval : {None},
   target_moisture : {None, Some(Pct(70))}]

\* The history answers of the backend: two rows under the kept number, and
\* MaxRows rows (the request asks for limit=100; the backend is not bound by it).
ApiRows == {Some(Rows(HISTORY_KEEP - 2)), Some(Rows(MaxRows))}

ApiReadings ==
  {None, Some(Reading(Pct(52), Pct(25), Pct(50), 0)),
   Some(Reading(Pct(90), Pct(25), Pct(50), 0))}

InitApi ==
  /\ InitService /\ InitThreads /\ lstm_model = TRUE /\ inp = NoInput

NextApi ==
  \/ \E g \in GH, a \in ApiArgs, rows \in ApiRows : ApiConfigure(g, a, rows)
  \/ \E greq \in GH \cup {""}, b \in {None} \cup {Some(x) : x \in BackendConfigs},
        rows \in ApiRows : ApiReload(greq, b, rows)
  \/ \E g \in GH, r \in ApiReadings : ApiAnalyze(g, r, HourOfDay)
  \/ \E g \in GH, r \in ApiReadings : ApiStatus(g, r, HourOfDay)

SpecApi == InitApi /\ [][NextApi]_vars


(***************************************************************************)
(* Request threads: POST /irrigation/execute and execute_irrigation        *)
(***************************************************************************)
\* The positions of a request thread inside a pulse sequence.
SeqPcs == {"post", "inflight", "waiting", "stabilize"}

\* A pulse sequence of execute_irrigation is running for greenhouse g in a
\* request thread other than w.
SequenceRunning(g, w) ==
  \E v \in Workers \ {w} : pc[v] \in SeqPcs /\ loc[v].g = g

\* What the route answers: the HTTP code and, of IrrigationResult, success,
\* pulses_executed and the kind of message (the moisture values that results
\* and reports carry are left out).
Result(code, success, pulses_executed, message) ==
  [code |-> code, success |-> success, pulses_executed |-> pulses_executed,
   message |-> message]

\* The locals of w are dropped at the return; what the model records of the
\* request stays until the thread takes its next request.
Return(l, result) ==
  [l EXCEPT !.decision = None, !.config = None, !.i = 0, !.pulses_executed = 0,
            !.started = None, !.used = None, !.result = Some(result)]

\* The event _report_irrigation_to_backend posts.
Report(report_status, pulse_count, has_error_message) ==
  [status |-> report_status, pulse_count |-> pulse_count,
   error_message |-> has_error_message]

\* pulses_executed counted at every answer of the ESP32.
count_executed_any(pulses_executed, answer) == pulses_executed + 1

\* "if response.status_code == 200: pulses_executed += 1"
count_executed(pulses_executed, answer) ==
  IF answer = "ok" THEN pulses_executed + 1 ELSE pulses_executed

\* int(total_duration * 1000) of a duration in hundredths of a second.
duration_ms(total_duration) == total_duration * 10

\* What a pulse sequence works with: esp32_url and pulse_wait of the config
\* dict, pulse_count, pulse_duration and target_moisture of the decision.
sequence_parameters(config, decision) ==
  [esp32_url |-> config.esp32_url, pulse_wait |-> config.pulse_wait,
   pulse_count |-> decision.pulse_count,
   pulse_duration |-> decision.pulse_duration,
   target_moisture |-> decision.target_moisture]

\* The parameters read from the stored config at each use.
SequenceParamsLive(w) ==
  sequence_parameters(irrigation_config[loc[w].g], Val(loc[w].decision))

\* The parameters of the running sequence of w: the locals esp32_url,
\* pulse_wait (of the dict execute_irrigation looked up at its entry) and
\* decision.
SequenceParams(w) ==
  sequence_parameters(Val(loc[w].config), Val(loc[w].decision))

\* How _report_irrigation_to_backend ends when the exception of the POST gets
\* out of it.
report_irrigation_unguarded(answer) ==
  IF answer = "raised" THEN "raised" ELSE "returned"

\* How _report_irrigation_to_backend ends for the backend's answer to its
\* POST: 201 ("created") is logged, another status ("rejected") is a warning,
\* an exception of the POST ("raised": transport error, timeout) is caught and
\* logged.  It returns to its caller in each case.
report_irrigation_to_backend(answer) ==
  IF answer = "created" THEN "returned"
  ELSE IF answer = "rejected" THEN "returned"
  ELSE "returned"

\* POST /irrigation/execute {greenhouseId: g, force}: the route up to its
\* call of execute_irrigation.  reading is the backend's answer to /latest.
ExecuteRoute(w, g, force, reading) ==
  /\ pc[w] = "idle"
  /\ IF g \notin DOMAIN irrigation_config
     THEN /\ loc' = [loc EXCEPT ![w] = [IdleLoc EXCEPT !.g = g,
                 !.result = Some(Result(400, FALSE, 0, "not_configured"))]]
          /\ UNCHANGED <<pc, reading_history>>
     ELSE IF force
     THEN /\ loc' = [loc EXCEPT ![w] = [IdleLoc EXCEPT !.g = g]]
          /\ pc' = [pc EXCEPT ![w] = "execute"]
          /\ UNCHANGED reading_history
     ELSE /\ reading_history' = get_current_reading(reading_history, g, reading)
          /\ \E d \in AnalyzeDecisions(reading_history', g, reading, HourOfDay) :
               IF ~d.needs_irrigation
               THEN /\ loc' = [loc EXCEPT ![w] = [IdleLoc EXCEPT !.g = g,
                           !.result = Some(Result(200, TRUE, 0, "route_not_needed"))]]
                    /\ UNCHANGED pc
               ELSE /\ loc' = [loc EXCEPT ![w] =
                                 [IdleLoc EXCEPT !.g = g, !.decision = Some(d)]]
                    /\ pc' = [pc EXCEPT ![w] = "execute"]
  /\ UNCHANGED <<status, last_irrigation, irrigation_config, monitor_thread,
                 stop_event, monitored_greenhouses, lstm_model, inp, resp,
                 mpc, mloc, now, pred_log>>

\* execute_irrigation from its entry to the first activation: the config
\* lookup, the initial reading, the analysis when no decision was passed, the
\* return without irrigation, status = IRRIGATING.
ExecuteEnter(w, reading, reading2) ==
  /\ pc[w] = "execute"
  /\ LET g == loc[w].g
         config == ConfigOf(g)
         hist1 == get_current_reading(reading_history, g, reading)
         hist2 == IF loc[w].decision = None
                  THEN get_current_reading(hist1, g, reading2) ELSE hist1
         decisions == IF loc[w].decision = None
                      THEN AnalyzeDecisions(hist2, g, reading2, HourOfDay)
                      ELSE {Val(loc[w].decision)}
     IN IF config = None
        THEN /\ loc' = [loc EXCEPT ![w] =
                    Return([@ EXCEPT !.invoked = TRUE],
                           Result(200, FALSE, 0, "no_esp32"))]
             /\ pc' = [pc EXCEPT ![w] = "idle"]
             /\ UNCHANGED <<status, reading_history>>
        ELSE /\ reading_history' = hist2
             /\ \E d \in decisions :
                  IF ~d.needs_irrigation
                  THEN /\ loc' = [loc EXCEPT ![w] =
                              Return([@ EXCEPT !.invoked = TRUE],
                                     Result(200, TRUE, 0, "not_needed"))]
                       /\ pc' = [pc EXCEPT ![w] = "idle"]
                       /\ UNCHANGED status
                  ELSE /\ status' = "irrigating"
                       /\ loc' = [loc EXCEPT ![w].invoked = TRUE,
                              ![w].decision = Some(d), ![w].config = config,
                              ![w].started = Some(sequence_parameters(Val(config), d)),
                              ![w].busy_at_entry = SequenceRunning(g, w)]
                       /\ pc' = [pc EXCEPT ![w] = "post"]
  /\ UNCHANGED <<last_irrigation, irrigation_config, monitor_thread, stop_event,
                 monitored_greenhouses, lstm_model, inp, resp, mpc, mloc, now,
                 pred_log>>

\* requests.post(esp32_url/pump/activate) of pulse i is sent.
PulseSend(w) ==
  /\ pc[w] = "post"
  /\ pc' = [pc EXCEPT ![w] = "inflight"]
  /\ loc' = [loc EXCEPT ![w].sent_after_failure = @ \/ loc[w].failed,
                        ![w].used = Some(SequenceParams(w)),
                        ![w].sent = @ + 1]
  /\ UNCHANGED <<status, reading_history, last_irrigation, irrigation_config,
                 monitor_thread, stop_event, monitored_greenhouses, lstm_model,
                 inp, resp, mpc, mloc, now, pred_log>>

\* The answer of the actuator in a loop that goes on to the next activation
\* without the wait and the re-read.
PulseAnswerNoWait(w, answer) ==
  /\ pc[w] = "inflight"
  /\ LET more == loc[w].i < Val(loc[w].decision).pulse_count - 1
     IN /\ loc' = [loc EXCEPT
                     ![w].pulses_executed = IF answer = "ok" THEN @ + 1 ELSE @,
                     ![w].failed = @ \/ answer # "ok",
                     ![w].i = IF more THEN @ + 1 ELSE @]
        /\ status' = IF more THEN "waiting" ELSE status
        /\ pc' = [pc EXCEPT ![w] = IF more THEN "post" ELSE "stabilize"]
  /\ UNCHANGED <<reading_history, last_irrigation, irrigation_config,
                 monitor_thread, stop_event, monitored_greenhouses, lstm_model,
                 inp, resp, mpc, mloc, now, pred_log>>

\* The actuator answers 200 ("ok") or another status ("rejected"): the count,
\* the warning, and the step to the wait or to the end of the loop.
PulseAnswer(w, answer) ==
  /\ pc[w] = "inflight"
  /\ LET more == loc[w].i < SequenceParams(w).pulse_count - 1
     IN /\ loc' = [loc EXCEPT
                     ![w].pulses_executed = count_executed(@, answer),
                     ![w].accepted = IF answer = "ok" THEN @ + 1 ELSE @,
                     ![w].total_duration =
                       IF answer = "ok" THEN @ + SequenceParams(w).pulse_duration
                       ELSE @,
                     ![w].failed = @ \/ answer # "ok"]
        /\ status' = IF more THEN "waiting" ELSE status
        /\ pc' = [pc EXCEPT ![w] = IF more THEN "waiting" ELSE "stabilize"]
  /\ UNCHANGED <<reading_history, last_irrigation, irrigation_config,
                 monitor_thread, stop_event, monitored_greenhouses, lstm_model,
                 inp, resp, mpc, mloc, now, pred_log>>

\* requests.post raises (timeout, connection error): the except branch,
\* status = ERROR, the report 'failed' (answer is the backend's), the result.
\* An exception that left the report would leave execute_irrigation too, and
\* the route would answer 500.
PulseRaise(w, answer) ==
  /\ pc[w] = "inflight"
  /\ status' = "error"
  /\ loc' = [loc EXCEPT ![w] =
       Return([@ EXCEPT !.failed = TRUE,
                 !.reports = Append(@, Report("failed", loc[w].pulses_executed, TRUE)),
                 !.report_duration_ms = duration_ms(loc[w].total_duration),
                 !.report_answers = Append(@, answer)],
              IF report_irrigation_to_backend(answer) = "returned"
              THEN Result(200, FALSE, loc[w].pulses_executed, "error")
              ELSE Result(500, FALSE, 0, "exception"))]
  /\ pc' = [pc EXCEPT ![w] = "idle"]
  /\ UNCHANGED <<reading_history, last_irrigation, irrigation_config,
                 monitor_thread, stop_event, monitored_greenhouses, lstm_model,
                 inp, resp, mpc, mloc, now, pred_log>>

\* After time.sleep(pulse_wait): the reading, and the early stop.
PulseReread(w, reading) ==
  /\ pc[w] = "waiting"
  /\ reading_history' = get_current_reading(reading_history, loc[w].g, reading)
  /\ IF reading # None
        /\ Val(reading).soil_moisture >= SequenceParams(w).target_moisture
     THEN /\ pc' = [pc EXCEPT ![w] = "stabilize"]
          /\ loc' = [loc EXCEPT ![w].stopped_after = loc[w].i + 1]
     ELSE /\ pc' = [pc EXCEPT ![w] = "post"]
          /\ loc' = [loc EXCEPT ![w].i = @ + 1]
  /\ UNCHANGED <<status, last_irrigation, irrigation_config, monitor_thread,
                 stop_event, monitored_greenhouses, lstm_model, inp, resp,
                 mpc, mloc, now, pred_log>>

\* After time.sleep(5): the final reading, last_irrigation, status = IDLE, the
\* report 'success' (answer is the backend's), the result.  The report is
\* posted inside the try: an exception that left it would take the except
\* branch (status = ERROR, a report 'failed', the error result).
ExecuteFinish(w, reading, answer) ==
  /\ pc[w] = "stabilize"
  /\ reading_history' = get_current_reading(reading_history, loc[w].g, reading)
  /\ last_irrigation' = DictPut(last_irrigation, loc[w].g, now)
  /\ IF report_irrigation_to_backend(answer) = "returned"
     THEN /\ status' = "idle"
          /\ loc' = [loc EXCEPT ![w] =
               Return([@ EXCEPT
                         !.reports = Append(@, Report("success", loc[w].pulses_executed, FALSE)),
                         !.report_duration_ms = duration_ms(loc[w].total_duration),
                         !.report_answers = Append(@, answer)],
                      Result(200, TRUE, loc[w].pulses_executed, "complete"))]
     ELSE /\ status' = "error"
          /\ loc' = [loc EXCEPT ![w] =
               Return([@ EXCEPT
                         !.reports = @ \o <<Report("success", loc[w].pulses_executed, FALSE),
                                            Report("failed", loc[w].pulses_executed, TRUE)>>,
                         !.report_duration_ms = duration_ms(loc[w].total_duration),
                         !.report_answers = @ \o <<answer, answer>>],
                      Result(200, FALSE, loc[w].pulses_executed, "error"))]
  /\ pc' = [pc EXCEPT ![w] = "idle"]
  /\ UNCHANGED <<irrigation_config, monitor_thread, stop_event,
                 monitored_greenhouses, lstm_model, inp, resp, mpc, mloc, now,
                 pred_log>>

(***************************************************************************)
(* The monitoring thread: _monitoring_loop                                 *)
(***************************************************************************)
PREDICTION_COOLDOWN == 7200

\* The thread object m is alive: started and not yet returned.
is_alive(m) == mpc[m] \notin {"unborn", "dead"}

SetMin(S) == CHOOSE x \in S : \A y \in S : x <= y

\* The kind chosen when the humidity test comes before the temperature test.
prediction_type_humidity_first(config, predictions, reading) ==
  IF predictions = None \/ Len(Val(predictions)) < 6 \/ reading = None
  THEN "none"
  ELSE LET current_moisture == Val(reading).soil_moisture
           predicted_6h == Val(predictions)[6]
           moisture_drop_6h == current_moisture - predicted_6h
       IN IF moisture_drop_6h > Pct(15) /\ predicted_6h < config.target_moisture
          THEN "moisture_drop"
          ELSE IF Val(reading).air_humidity < Pct(40) /\ moisture_drop_6h > Pct(8)
          THEN "humidity_drop"
          ELSE IF Val(reading).air_temperature > Pct(30) /\ moisture_drop_6h > Pct(10)
          THEN "temperature_rise"
          ELSE "none"

\* _check_and_send_prediction up to its POST: the kind of notification it
\* sends, "none" when it returns False before posting ("not predictions or
\* len(predictions) < 6", no reading, no branch taken).
prediction_type(config, predictions, reading) ==
  IF predictions = None \/ Len(Val(predictions)) < 6 \/ reading = None
  THEN "none"
  ELSE LET current_moisture == Val(reading).soil_moisture
           target_moisture == config.target_moisture
           predicted_6h == Val(predictions)[6]
           moisture_drop_6h == current_moisture - predicted_6h
       IN IF moisture_drop_6h > Pct(15) /\ predicted_6h < target_moisture
          THEN "moisture_drop"
          ELSE IF Val(reading).air_temperature > Pct(30) /\ moisture_drop_6h > Pct(10)
          THEN "temperature_rise"
          ELSE IF Val(reading).air_humidity < Pct(40) /\ moisture_drop_6h > Pct(8)
          THEN "humidity_drop"
          ELSE "none"

\* What _check_and_send_prediction returns after its POST of a notification
\* of the given kind: True on 201 with success and not skipped ("accepted"),
\* False on a skipped answer, on another status and on an exception
\* ("failed"), and when there was nothing to send.  The variant
\* prediction_sent_any returns True whenever a notification was posted.
prediction_sent_any(kind, answer) == kind # "none"

prediction_sent(kind, answer) == kind # "none" /\ answer = "accepted"

\* The backend's record of the accepted prediction notifications of g: the
\* times of the last two.
LogAccepted(log, g, t) ==
  LET old == IF g \in DOMAIN log THEN log[g] ELSE << >>
  IN DictPut(log, g, LastN(Append(old, t), 2))

\* "while not self._stop_event.is_set()": the thread returns, or snapshots
\* list(self._monitored_greenhouses.items()).
MLoop(m) ==
  /\ mpc[m] = "loop"
  /\ IF stop_event
     THEN /\ mpc' = [mpc EXCEPT ![m] = "dead"]
          /\ mloc' = [mloc EXCEPT ![m] = NewMonitorLoc]
     ELSE /\ mpc' = [mpc EXCEPT ![m] = "scan"]
          /\ mloc' = [mloc EXCEPT ![m].todo = monitored_greenhouses]
  /\ UNCHANGED <<status, reading_history, last_irrigation, irrigation_config,
                 monitor_thread, stop_event, monitored_greenhouses, lstm_model,
                 inp, resp, pc, loc, now, pred_log>>

\* The body of the for loop for greenhouse g up to the call of
\* _execute_single_pulse: the analysis, the prediction gate and its POST
\* (answer is the backend's: "accepted", "skipped" or "failed"), the decision
\* to pulse.  The model takes the snapshot's entries in any order.
MTick(m, g, reading, reading2, answer) ==
  /\ mpc[m] = "scan" /\ g \in DOMAIN mloc[m].todo
  /\ LET config == mloc[m].todo[g].config
         hist1 == get_current_reading(reading_history, g, reading)
         last_notif == IF g \in DOMAIN mloc[m].last_prediction_time
                       THEN mloc[m].last_prediction_time[g] ELSE 0
         gate_open == now - last_notif > PREDICTION_COOLDOWN
     IN \E predictions \in predict_moisture(hist1, g) :
          LET decision == analyze_irrigation_need(ConfigOf(g), reading,
                                                  predictions, HourOfDay)
              fetch2 == gate_open /\ predictions # None
              kind == IF fetch2 THEN prediction_type(config, predictions, reading2)
                      ELSE "none"
              accepted == kind # "none" /\ answer = "accepted"
              sent == prediction_sent(kind, answer)
              pulse == decision.needs_irrigation /\ config.auto_irrigate
          IN /\ reading_history' =
                  IF fetch2 THEN get_current_reading(hist1, g, reading2) ELSE hist1
             /\ pred_log' = IF accepted THEN LogAccepted(pred_log, g, now)
                            ELSE pred_log
             /\ mloc' = [mloc EXCEPT
                  ![m].last_prediction_time =
                      IF sent THEN DictPut(@, g, now) ELSE @,
                  ![m].todo = IF pulse THEN @ ELSE DictDel(@, g),
                  ![m].g = IF pulse THEN g ELSE "",
                  ![m].config = IF pulse THEN Some(config) ELSE None,
                  ![m].decision = IF pulse THEN Some(decision) ELSE None]
             /\ mpc' = [mpc EXCEPT ![m] = IF pulse THEN "dispatch" ELSE "scan"]
  /\ UNCHANGED <<status, last_irrigation, irrigation_config, monitor_thread,
                 stop_event, monitored_greenhouses, lstm_model, inp, resp,
                 pc, loc, now>>

\* _execute_single_pulse up to its POST: the reading, then the activation is
\* sent.
MPulseSend(m, reading) ==
  /\ mpc[m] = "dispatch"
  /\ reading_history' = get_current_reading(reading_history, mloc[m].g, reading)
  /\ mpc' = [mpc EXCEPT ![m] = "pulse"]
  /\ UNCHANGED mloc
  /\ UNCHANGED <<status, last_irrigation, irrigation_config, monitor_thread,
                 stop_event, monitored_greenhouses, lstm_model, inp, resp,
                 pc, loc, now, pred_log>>

\* The actuator's answer to the single pulse ("ok", "rejected", or "raised"
\* for a transport error): last_irrigation and the report.
MPulseAnswer(m, answer) ==
  /\ mpc[m] = "pulse"
  /\ last_irrigation' = IF answer = "ok"
                        THEN DictPut(last_irrigation, mloc[m].g, now)
                        ELSE last_irrigation
  /\ mloc' = [mloc EXCEPT
                ![m].reports = Append(@, IF answer = "ok"
                                         THEN Report("success", 1, FALSE)
                                         ELSE Report("failed", 0, TRUE))]
  /\ mpc' = [mpc EXCEPT ![m] = "pulsed"]
  /\ UNCHANGED <<status, reading_history, irrigation_config, monitor_thread,
                 stop_event, monitored_greenhouses, lstm_model, inp, resp,
                 pc, loc, now, pred_log>>

\* _execute_single_pulse returns: the loop goes on to the next greenhouse.
MPulseReturn(m) ==
  /\ mpc[m] = "pulsed"
  /\ mloc' = [mloc EXCEPT ![m].todo = DictDel(@, mloc[m].g),
                          ![m].g = "", ![m].config = None,
                          ![m].decision = None, ![m].reports = << >>]
  /\ mpc' = [mpc EXCEPT ![m] = "scan"]
  /\ UNCHANGED <<status, reading_history, last_irrigation, irrigation_config,
                 monitor_thread, stop_event, monitored_greenhouses, lstm_model,
                 inp, resp, pc, loc, now, pred_log>>

\* After the for loop, "... if self._monitored_greenhouses else
\* DEFAULT_CHECK_INTERVAL": the test of the dict.  An empty dict gives the
\* default interval, another one leads to the call of min().
MScanEnd(m) ==
  /\ mpc[m] = "scan" /\ DOMAIN mloc[m].todo = {}
  /\ IF DOMAIN monitored_greenhouses = {}
     THEN /\ mloc' = [mloc EXCEPT ![m].check_interval = DEFAULT_CHECK_INTERVAL]
          /\ mpc' = [mpc EXCEPT ![m] = "sleep"]
     ELSE /\ mpc' = [mpc EXCEPT ![m] = "min"]
          /\ UNCHANGED mloc
  /\ UNCHANGED <<status, reading_history, last_irrigation, irrigation_config,
                 monitor_thread, stop_event, monitored_greenhouses, lstm_model,
                 inp, resp, pc, loc, now, pred_log>>

\* min(... for info in self._monitored_greenhouses.values()) begins: the
\* iterator notes the size of the dict and the generator reads the pulse_wait
\* of the entries.  On a dict that is empty by now min() raises ValueError
\* outside the try of the loop: the thread ends.
MMinBegin(m) ==
  /\ mpc[m] = "min"
  /\ IF DOMAIN monitored_greenhouses = {}
     THEN /\ mpc' = [mpc EXCEPT ![m] = "dead"]
          /\ mloc' = [mloc EXCEPT ![m] = NewMonitorLoc]
     ELSE /\ mpc' = [mpc EXCEPT ![m] = "min_next"]
          /\ mloc' = [mloc EXCEPT
                ![m].di_used = Cardinality(DOMAIN monitored_greenhouses),
                ![m].check_interval =
                  SetMin({monitored_greenhouses[g].config.pulse_wait :
                            g \in DOMAIN monitored_greenhouses})]
  /\ UNCHANGED <<status, reading_history, last_irrigation, irrigation_config,
                 monitor_thread, stop_event, monitored_greenhouses, lstm_model,
                 inp, resp, pc, loc, now, pred_log>>

\* The iterator's last step: on a dict whose size has changed since the
\* iteration began it raises RuntimeError (dictionary changed size during
\* iteration) and the thread ends; else min() returns the interval.
MMinEnd(m) ==
  /\ mpc[m] = "min_next"
  /\ IF Cardinality(DOMAIN monitored_greenhouses) # mloc[m].di_used
     THEN /\ mpc' = [mpc EXCEPT ![m] = "dead"]
          /\ mloc' = [mloc EXCEPT ![m] = NewMonitorLoc]
     ELSE /\ mpc' = [mpc EXCEPT ![m] = "sleep"]
          /\ mloc' = [mloc EXCEPT ![m].di_used = 0]
  /\ UNCHANGED <<status, reading_history, last_irrigation, irrigation_config,
                 monitor_thread, stop_event, monitored_greenhouses, lstm_model,
                 inp, resp, pc, loc, now, pred_log>>

\* self._stop_event.wait(check_interval) returns: the event was set, or the
\* interval has passed.
MWake(m) ==
  /\ mpc[m] = "sleep"
  /\ mpc' = [mpc EXCEPT ![m] = "loop"]
  /\ mloc' = [mloc EXCEPT ![m].check_interval = 0]
  /\ UNCHANGED <<status, reading_history, last_irrigation, irrigation_config,
                 monitor_thread, stop_event, monitored_greenhouses, lstm_model,
                 inp, resp, pc, loc, now, pred_log>>

(***************************************************************************)
(* Request threads: start-monitor, stop-monitor, configure                 *)
(***************************************************************************)
\* The body of POST /irrigation/start-monitor that names the greenhouse and
\* its esp32Ip only.
PlainBody ==
  [esp32Ip |-> "10.0.0.7", plantType |-> None, checkInterval |-> None,
   pulseDuration |-> None, pulseWait |-> None, maxPulses |-> None,
   targetMoisture |-> None]

\* data.get(key, default) on a request body
BodyGet(x, default) == IF x = None THEN default ELSE Val(x)

\* The arguments POST /irrigation/start-monitor passes to start_monitoring
\* for a greenhouse without config.
start_monitor_args(body) ==
  [esp32_ip |-> body.esp32Ip, esp32_port |-> 8080,
   plant_type |-> BodyGet(body.plantType, "default"),
   pulse_duration |-> Some(BodyGet(body.pulseDuration, 50)),
   pulse_wait |-> Some(BodyGet(body.pulseWait, 60)),
   max_pulses |-> Some(BodyGet(body.maxPulses, 20)),
   auto_irrigate |-> TRUE,
   check_interval |-> Some(BodyGet(body.checkInterval, 60)),
   target_moisture |-> Some(BodyGet(body.targetMoisture, Pct(20)))]

\* POST /irrigation/start-monitor with body, and start_monitoring(g) up to
\* its look at the thread: configure_greenhouse for a greenhouse without
\* config (rows is the backend's history answer),
\* config['auto_irrigate'] = True on the stored dict, the entry of
\* _monitored_greenhouses.  For a greenhouse without config and a body
\* without esp32Ip ("") the route answers 400 before it calls the service.
StartMonitorRoute(w, g, body, rows) ==
  /\ pc[w] = "idle"
  /\ LET configured == g \in DOMAIN irrigation_config
         config0 == IF configured THEN irrigation_config[g]
                    ELSE configure_greenhouse_config(start_monitor_args(body))
         config == [config0 EXCEPT !.auto_irrigate = TRUE]
     IN IF ~configured /\ body.esp32Ip = ""
        THEN /\ loc' = [loc EXCEPT ![w] = [IdleLoc EXCEPT !.g = g,
                    !.result = Some(Result(400, FALSE, 0, "esp32ip_required"))]]
             /\ UNCHANGED <<pc, irrigation_config, reading_history,
                            monitored_greenhouses>>
        ELSE /\ irrigation_config' = DictPut(irrigation_config, g, config)
             /\ reading_history' =
                  IF ~configured /\ g \notin DOMAIN reading_history
                  THEN DictPut(reading_history, g, load_historical_data(<< >>, rows))
                  ELSE reading_history
             /\ monitored_greenhouses' =
                  DictPut(monitored_greenhouses, g, [config |-> config])
             /\ loc' = [loc EXCEPT ![w] = [IdleLoc EXCEPT !.g = g]]
             /\ pc' = [pc EXCEPT ![w] = "sm_check"]
  /\ UNCHANGED <<status, last_irrigation, monitor_thread, stop_event,
                 lstm_model, inp, resp, mpc, mloc, now, pred_log>>

\* "if self._monitor_thread is None or not self._monitor_thread.is_alive()":
\* with a live thread start_monitoring returns.
StartMonitorCheck(w) ==
  /\ pc[w] = "sm_check"
  /\ IF monitor_thread = NoThread \/ ~is_alive(monitor_thread)
     THEN /\ pc' = [pc EXCEPT ![w] = "sm_clear"]
          /\ UNCHANGED loc
     ELSE /\ pc' = [pc EXCEPT ![w] = "idle"]
          /\ loc' = [loc EXCEPT ![w] = IdleLoc]
  /\ UNCHANGED <<status, reading_history, last_irrigation, irrigation_config,
                 monitor_thread, stop_event, monitored_greenhouses, lstm_model,
                 inp, resp, mpc, mloc, now, pred_log>>

\* self._stop_event.clear()
StartMonitorClear(w) ==
  /\ pc[w] = "sm_clear"
  /\ stop_event' = FALSE
  /\ pc' = [pc EXCEPT ![w] = "sm_spawn"]
  /\ UNCHANGED <<status, reading_history, last_irrigation, irrigation_config,
                 monitor_thread, monitored_greenhouses, lstm_model, inp, resp,
                 loc, mpc, mloc, now, pred_log>>

\* The new Thread object m is stored and started; start_monitoring returns.
\* A thread object that has returned, or was never started, serves as the new
\* object.
StartMonitorSpawn(w, m) ==
  /\ pc[w] = "sm_spawn"
  /\ ~is_alive(m)
  /\ monitor_thread' = m
  /\ mpc' = [mpc EXCEPT ![m] = "loop"]
  /\ mloc' = [mloc EXCEPT ![m] = NewMonitorLoc]
  /\ pc' = [pc EXCEPT ![w] = "idle"]
  /\ loc' = [loc EXCEPT ![w] = IdleLoc]
  /\ UNCHANGED <<status, reading_history, last_irrigation, irrigation_config,
                 stop_event, monitored_greenhouses, lstm_model, inp, resp,
                 now, pred_log>>

\* stop_monitoring(g): the entry of g is deleted.
StopMonitorOne(w, g) ==
  /\ pc[w] = "idle"
  /\ monitored_greenhouses' =
       IF g \in DOMAIN monitored_greenhouses
       THEN DictDel(monitored_greenhouses, g) ELSE monitored_greenhouses
  /\ loc' = [loc EXCEPT ![w] = IdleLoc]
  /\ UNCHANGED <<status, reading_history, last_irrigation, irrigation_config,
                 monitor_thread, stop_event, lstm_model, inp, resp, pc, mpc,
                 mloc, now, pred_log>>

\* stop_monitoring(): self._stop_event.set()
StopMonitorAllSet(w) ==
  /\ pc[w] = "idle"
  /\ stop_event' = TRUE
  /\ loc' = [loc EXCEPT ![w] = IdleLoc]
  /\ pc' = [pc EXCEPT ![w] = "stop_clear"]
  /\ mloc' = [m \in Monitors |->
                IF is_alive(m) THEN [mloc[m] EXCEPT !.signalled = TRUE]
                ELSE mloc[m]]
  /\ UNCHANGED <<status, reading_history, last_irrigation, irrigation_config,
                 monitor_thread, monitored_greenhouses, lstm_model, inp, resp,
                 mpc, now, pred_log>>

\* stop_monitoring(): self._monitored_greenhouses.clear(), and the return.
StopMonitorAllClear(w) ==
  /\ pc[w] = "stop_clear"
  /\ monitored_greenhouses' = EmptyDict
  /\ pc' = [pc EXCEPT ![w] = "idle"]
  /\ loc' = [loc EXCEPT ![w] = IdleLoc]
  /\ UNCHANGED <<status, reading_history, last_irrigation, irrigation_config,
                 monitor_thread, stop_event, lstm_model, inp, resp, mpc, mloc,
                 now, pred_log>>

\* POST /irrigation/configure handled by a request thread.
ConfigureRoute(w, g, a, rows) ==
  /\ pc[w] = "idle"
  /\ ConfigureGreenhouse(g, a, rows)
  /\ loc' = [loc EXCEPT ![w] = IdleLoc]
  /\ UNCHANGED <<status, last_irrigation, monitor_thread, stop_event,
                 monitored_greenhouses, lstm_model, inp, resp, pc, mpc, mloc,
                 now, pred_log>>

\* The wall clock moves on by ClockStep seconds, MaxAdvance times at most.
ClockStep == 4000

MaxAdvance == 2

Advance ==
  /\ now + ClockStep <= Epoch + MaxAdvance * ClockStep
  /\ now' = now + ClockStep
  /\ UNCHANGED <<status, reading_history, last_irrigation, irrigation_config,
                 monitor_thread, stop_event, monitored_greenhouses, lstm_model,
                 inp, resp, pc, loc, mpc, mloc, pred_log>>

(***************************************************************************)
(* The steps of the threads, for the threads, greenhouses and backend      *)
(* answers a specification lets them range over                            *)
(***************************************************************************)
\* POST /irrigation/execute on a greenhouse of G by a thread of W, and the
\* steps of execute_irrigation; readings are the backend's answers to /latest,
\* answers its answers to the report.
ExecuteSteps(W, G, readings, answers) ==
  \/ \E w \in W, g \in G, force \in BOOLEAN, r \in readings :
       ExecuteRoute(w, g, force, r)
  \/ \E w \in W, r \in readings, r2 \in readings : ExecuteEnter(w, r, r2)
  \/ \E w \in W : PulseSend(w)
  \/ \E w \in W, answer \in {"ok", "rejected"} : PulseAnswer(w, answer)
  \/ \E w \in W, answer \in answers : PulseRaise(w, answer)
  \/ \E w \in W, r \in readings : PulseReread(w, r)
  \/ \E w \in W, r \in readings, answer \in answers : ExecuteFinish(w, r, answer)

\* POST /irrigation/start-monitor with body on a greenhouse of G by a thread
\* of W, and the steps of start_monitoring.
StartSteps(W, G, body, rows) ==
  \/ \E w \in W, g \in G : StartMonitorRoute(w, g, body, rows)
  \/ \E w \in W : StartMonitorCheck(w)
  \/ \E w \in W : StartMonitorClear(w)
  \/ \E w \in W, m \in Monitors : StartMonitorSpawn(w, m)

\* POST /irrigation/stop-monitor without greenhouseId by a thread of W.
StopSteps(W) ==
  \/ \E w \in W : StopMonitorAllSet(w)
  \/ \E w \in W : StopMonitorAllClear(w)

\* The steps of the monitoring threads outside _execute_single_pulse;
\* readings2 and answers are the backend's answers to the prediction gate.
LoopSteps(readings, readings2, answers) ==
  \/ \E m \in Monitors : MLoop(m)
  \/ \E m \in Monitors, g \in GH, r \in readings, r2 \in readings2,
        answer \in answers : MTick(m, g, r, r2, answer)
  \/ \E m \in Monitors : MScanEnd(m)
  \/ \E m \in Monitors : MMinBegin(m)
  \/ \E m \in Monitors : MMinEnd(m)
  \/ \E m \in Monitors : MWake(m)

\* The steps of _execute_single_pulse.
SinglePulseSteps(readings) ==
  \/ \E m \in Monitors, r \in readings : MPulseSend(m, r)
  \/ \E m \in Monitors, answer \in {"ok", "rejected", "raised"} :
       MPulseAnswer(m, answer)
  \/ \E m \in Monitors : MPulseReturn(m)

(***************************************************************************)
(* Spec: two request threads that configure greenhouses and execute        *)
(* irrigation, in any interleaving                                         *)
(***************************************************************************)
\* max_pulses of the greenhouses Spec and SpecTick configure.
SpecMaxPulses == 2

SpecArgs ==
  [esp32_ip |-> "10.0.0.7", esp32_port |-> 8080, plant_type |-> "tomato",
   pulse_duration |-> None, pulse_wait |-> None,
   max_pulses |-> Some(SpecMaxPulses), auto_irrigate |-> FALSE,
   check_interval |-> None, target_moisture |-> None]

\* The backend's answers to /latest: none, a dry soil, a wet soil.
SpecReadings ==
  {None, Some(Reading(Pct(52), Pct(25), Pct(50), 0)),
   Some(Reading(Pct(90), Pct(25), Pct(50), 0))}

\* The backend's history answer to the threads: a full history.
FullRows == Some(Rows(HISTORY_KEEP))

\* The service after construction, no forecaster loaded.
Init ==
  /\ InitService /\ InitThreads /\ lstm_model = FALSE /\ inp = NoInput

Next ==
  \/ \E w \in Workers, g \in GH : ConfigureRoute(w, g, SpecArgs, FullRows)
  \/ ExecuteSteps(Workers, GH, SpecReadings, {"created"})

Spec == Init /\ [][Next]_vars

(***************************************************************************)
(* SpecTick: one request thread that configures, starts monitoring and     *)
(* executes irrigation on one greenhouse, and the monitoring thread with   *)
(* its pulses                                                              *)
(***************************************************************************)
\* The start-monitor body that asks for what SpecArgs configures.
SpecBody ==
  [esp32Ip |-> "10.0.0.7", plantType |-> Some("tomato"),
   checkInterval |-> Some(DEFAULT_CHECK_INTERVAL),
   pulseDuration |-> Some(DEFAULT_PULSE_DURATION),
   pulseWait |-> Some(DEFAULT_PULSE_WAIT), maxPulses |-> Some(SpecMaxPulses),
   targetMoisture |-> Some(get_ideal_moisture("tomato").ideal)]

NextTick ==
  \/ \E w \in {"h1"}, g \in {"g1"} : ConfigureRoute(w, g, SpecArgs, FullRows)
  \/ StartSteps({"h1"}, {"g1"}, SpecBody, FullRows)
  \/ ExecuteSteps({"h1"}, {"g1"}, SpecReadings, {"created"})
  \/ LoopSteps(SpecReadings, {None}, {"skipped"})
  \/ SinglePulseSteps(SpecReadings)

SpecTick == Init /\ [][NextTick]_vars

(***************************************************************************)
(* SpecMon: two request threads that start and stop monitoring, and the    *)
(* monitoring threads they start (no forecaster is loaded)                 *)
(***************************************************************************)
\* The backend's answers to /latest in SpecMon and SpecGate: none, or a soil
\* above the target of a plain start-monitor (20 %) under hot air, so that no
\* tick calls for a pulse.
MonReadings == {None, Some(Reading(Pct(52), Pct(35), Pct(50), 0))}

NextMon ==
  \/ StartSteps(Workers, {"g1"}, PlainBody, FullRows)
  \/ \E w \in Workers, g \in {"g1"} : StopMonitorOne(w, g)
  \/ StopSteps(Workers)
  \/ LoopSteps(MonReadings, {None}, {"skipped"})

SpecMon == Init /\ [][NextMon]_vars

(***************************************************************************)
(* SpecGate: one request thread that starts and stops monitoring, the      *)
(* monitoring threads with a forecaster loaded, and the clock              *)
(***************************************************************************)
InitGate ==
  /\ InitService /\ InitThreads /\ lstm_model = TRUE /\ inp = NoInput

NextGate ==
  \/ StartSteps({"h1"}, {"g1"}, PlainBody, FullRows)
  \/ StopSteps({"h1"})
  \/ LoopSteps(MonReadings, MonReadings, {"accepted", "skipped", "failed"})
  \/ Advance

SpecGate == InitGate /\ [][NextGate]_vars

(***************************************************************************)
(* SpecPredict: configure_greenhouse followed by one call of               *)
(* _check_and_send_prediction, over forecasts, readings and targets        *)
(***************************************************************************)
\* What the LSTM returns to the call: the forecasts, one of 5 values, an
\* empty one.
GateForecasts ==
  Forecasts \cup {[i \in 1..5 |-> Pct(30)], << >>}

PredictArgs ==
  [esp32_ip : {"10.0.0.7"}, esp32_port : {8080}, plant_type : {"tomato"},
   pulse_duration : {None}, pulse_wait : {None}, max_pulses : {None},
   auto_irrigate : {FALSE}, check_interval : {None},
   target_moisture : {Some(Pct(20)), Some(Pct(70))}]

PredictReadings ==
  {Reading(m, t, h, 0) :
     m \in {Pct(48), Pct(50), Pct(55), Pct(75)},
     t \in {Pct(30), Pct(35)}, h \in {Pct(30), Pct(40)}}

\* _check_and_send_prediction(g, config, decision): forecast is the model's
\* output when predict_moisture gets to the model, reading the backend's
\* answer to /latest, answer the backend's answer to the POST.
CheckAndSendPrediction(g, config, forecast, reading, answer) ==
  LET predictions == IF predict_moisture(reading_history, g) = {None}
                     THEN None ELSE forecast
      fetched == predictions # None /\ Len(Val(predictions)) >= 6
      kind == prediction_type(config, predictions, reading)
  IN /\ reading_history' =
          IF fetched THEN get_current_reading(reading_history, g, reading)
          ELSE reading_history
     /\ pred_log' = IF kind # "none" /\ answer = "accepted"
                    THEN LogAccepted(pred_log, g, now) ELSE pred_log
     /\ resp' = [op |-> "prediction", code |-> 0, decision |-> None,
                 predictions |-> predictions, kind |-> kind,
                 sent |-> prediction_sent(kind, answer)]
     /\ UNCHANGED <<status, last_irrigation, irrigation_config, monitor_thread,
                    stop_event, monitored_greenhouses, lstm_model, inp, pc, loc,
                    mpc, mloc, now>>

InitPredict ==
  /\ InitService /\ InitThreads /\ lstm_model = TRUE
  /\ inp \in [args : {Some(a) : a \in PredictArgs},
              rows : {Some(Rows(0)), Some(Rows(HISTORY_KEEP))},
              backend : {None},
              reading : {None} \cup {Some(r) : r \in PredictReadings},
              hour : {HourOfDay},
              forecast : {None} \cup {Some(f) : f \in GateForecasts}]

NextPredict ==
  \/ DConfigure
  \/ \E answer \in {"accepted", "skipped", "failed"} :
       /\ resp.op = "configure"
       /\ CheckAndSendPrediction("g1", irrigation_config["g1"], inp.forecast,
                                 inp.reading, answer)

SpecPredict == InitPredict /\ [][NextPredict]_vars

(***************************************************************************)
(* SpecReport: one request thread that configures a greenhouse and executes *)
(* irrigation, the backend answering the reports in every way              *)
(***************************************************************************)
\* The backend's answers to POST /irrigation/ai/report: 201, another status,
\* no answer (transport error, timeout).
ReportAnswers == {"created", "rejected", "raised"}

NextReport ==
  \/ ConfigureRoute("h1", "g1", SpecArgs, FullRows)
  \/ ExecuteSteps({"h1"}, {"g1"}, SpecReadings, ReportAnswers)
  \/ Advance

SpecReport == Init /\ [][NextReport]_vars

(***************************************************************************)
(* SpecReload: one request thread that starts monitoring a greenhouse with *)
(* target 50 %, reloads its config from the backend and analyzes, and the  *)
(* monitoring thread with its pulses                                       *)
(***************************************************************************)
\* The start-monitor body that asks for a target of 50 %.
ReloadBody == [PlainBody EXCEPT !.targetMoisture = Some(Pct(50))]

\* The backend's answers to the config fetch: none, or a record of g1.
ReloadAnswers == {None} \cup {Some(b) : b \in BackendConfigs}

NextReload ==
  \/ StartSteps({"h1"}, {"g1"}, ReloadBody, FullRows)
  \/ \E b \in ReloadAnswers : pc["h1"] = "idle" /\ ApiReload("g1", b, FullRows)
  \/ \E r \in MonReadings : pc["h1"] = "idle" /\ ApiAnalyze("g1", r, HourOfDay)
  \/ LoopSteps(MonReadings, {None}, {"skipped"})
  \/ SinglePulseSteps(MonReadings)

SpecReload == Init /\ [][NextReload]_vars

(***************************************************************************)
(* SpecHist: get_current_reading step by step, called by a request thread  *)
(* (analyze) and by the monitoring thread on the same greenhouse; the      *)
(* monitoring is started once                                              *)
(***************************************************************************)
\* Each thread calls get_current_reading at most MaxFetch times.
MaxFetch == 2

\* The backend's answers to /latest: readings of a wet soil with the time
\* stamps 1 and 2 (the rows of the loaded history have the time stamp 0).
HistReadings ==
  {Reading(Pct(90), Pct(25), Pct(50), ts) : ts \in {1, 2}}

\* get_current_reading(g) in a request thread, from the call of analyze to
\* "self.reading_history[greenhouse_id].append(reading)".
HistFetch(w, g, reading) ==
  /\ pc[w] = "idle" /\ g \in DOMAIN irrigation_config
  /\ g \in DOMAIN reading_history /\ Len(loc[w].fetched) < MaxFetch
  /\ reading_history' = [reading_history EXCEPT ![g] = Append(@, reading.ts)]
  /\ loc' = [loc EXCEPT ![w].g = g, ![w].fetched = Append(@, reading.ts)]
  /\ pc' = [pc EXCEPT ![w] = "gcr_cut"]
  /\ UNCHANGED <<status, last_irrigation, irrigation_config, monitor_thread,
                 stop_event, monitored_greenhouses, lstm_model, inp, resp,
                 mpc, mloc, now, pred_log>>

\* "if len(self.reading_history[greenhouse_id]) > 100:" and the slice
\* self.reading_history[greenhouse_id][-100:], a new list; without a cut the
\* call returns and the analysis (no pulse, wet soil) is answered.
HistCut(w) ==
  /\ pc[w] = "gcr_cut"
  /\ LET h == reading_history[loc[w].g]
     IN IF Len(h) > HISTORY_KEEP
        THEN /\ loc' = [loc EXCEPT ![w].kept = Some(LastN(h, HISTORY_KEEP))]
             /\ pc' = [pc EXCEPT ![w] = "gcr_assign"]
        ELSE /\ pc' = [pc EXCEPT ![w] = "idle"]
             /\ UNCHANGED loc
  /\ UNCHANGED <<status, reading_history, last_irrigation, irrigation_config,
                 monitor_thread, stop_event, monitored_greenhouses, lstm_model,
                 inp, resp, mpc, mloc, now, pred_log>>

\* "self.reading_history[greenhouse_id] = <the slice>", and the return.
HistAssign(w) ==
  /\ pc[w] = "gcr_assign"
  /\ reading_history' = [reading_history EXCEPT ![loc[w].g] = Val(loc[w].kept)]
  /\ loc' = [loc EXCEPT ![w].kept = None]
  /\ pc' = [pc EXCEPT ![w] = "idle"]
  /\ UNCHANGED <<status, last_irrigation, irrigation_config, monitor_thread,
                 stop_event, monitored_greenhouses, lstm_model, inp, resp,
                 mpc, mloc, now, pred_log>>

\* The same steps in the monitoring thread, for greenhouse g of its scan:
\* the call of analyze_irrigation_need up to the append.
MHistFetch(m, g, reading) ==
  /\ mpc[m] = "scan" /\ g \in DOMAIN mloc[m].todo
  /\ g \in DOMAIN reading_history /\ Len(mloc[m].fetched) < MaxFetch
  /\ reading_history' = [reading_history EXCEPT ![g] = Append(@, reading.ts)]
  /\ mloc' = [mloc EXCEPT ![m].g = g, ![m].fetched = Append(@, reading.ts)]
  /\ mpc' = [mpc EXCEPT ![m] = "gcr_cut"]
  /\ UNCHANGED <<status, last_irrigation, irrigation_config, monitor_thread,
                 stop_event, monitored_greenhouses, lstm_model, inp, resp,
                 pc, loc, now, pred_log>>

\* The test and the slice; without a cut the call returns, and the rest of
\* the loop's body (no forecaster, a wet soil: no notification, no pulse)
\* ends the pass for g.
MHistCut(m) ==
  /\ mpc[m] = "gcr_cut"
  /\ LET h == reading_history[mloc[m].g]
     IN IF Len(h) > HISTORY_KEEP
        THEN /\ mloc' = [mloc EXCEPT ![m].kept = Some(LastN(h, HISTORY_KEEP))]
             /\ mpc' = [mpc EXCEPT ![m] = "gcr_assign"]
        ELSE /\ mloc' = [mloc EXCEPT ![m].todo = DictDel(@, mloc[m].g),
                                     ![m].g = ""]
             /\ mpc' = [mpc EXCEPT ![m] = "scan"]
  /\ UNCHANGED <<status, reading_history, last_irrigation, irrigation_config,
                 monitor_thread, stop_event, monitored_greenhouses, lstm_model,
                 inp, resp, pc, loc, now, pred_log>>

\* The assignment of the slice, the return, and the rest of the body.
MHistAssign(m) ==
  /\ mpc[m] = "gcr_assign"
  /\ reading_history' = [reading_history EXCEPT ![mloc[m].g] = Val(mloc[m].kept)]
  /\ mloc' = [mloc EXCEPT ![m].kept = None, ![m].todo = DictDel(@, mloc[m].g),
                          ![m].g = ""]
  /\ mpc' = [mpc EXCEPT ![m] = "scan"]
  /\ UNCHANGED <<status, last_irrigation, irrigation_config, monitor_thread,
                 stop_event, monitored_greenhouses, lstm_model, inp, resp,
                 pc, loc, now, pred_log>>

NextHist ==
  \/ /\ monitor_thread = NoThread
     /\ \E rows \in {Some(Rows(HISTORY_KEEP - 2)), FullRows} :
          StartSteps({"h1"}, {"g1"}, PlainBody, rows)
  \/ \E r \in HistReadings : HistFetch("h1", "g1", r)
  \/ HistCut("h1")
  \/ HistAssign("h1")
  \/ MLoop("m1")
  \/ \E r \in HistReadings : MHistFetch("m1", "g1", r)
  \/ MHistCut("m1")
  \/ MHistAssign("m1")
  \/ MScanEnd("m1")
  \/ MMinBegin("m1")
  \/ MMinEnd("m1")
  \/ MWake("m1")

SpecHist == Init /\ [][NextHist]_vars

(***************************************************************************)
(* SpecSnap: one request thread that executes irrigation on a greenhouse   *)
(* while configure and reload-config requests replace its config           *)
(***************************************************************************)
\* The arguments of the configure requests: those of SpecArgs, and others
\* that differ in the endpoint, the pulse, the wait, the limit and the target.
SnapArgs ==
  {SpecArgs,
   [esp32_ip |-> "10.0.0.9", esp32_port |-> 80, plant_type |-> "lettuce",
    pulse_duration |-> Some(Sec(2)), pulse_wait |-> Some(60),
    max_pulses |-> Some(1), auto_irrigate |-> TRUE,
    check_interval |-> Some(60), target_moisture |-> Some(Pct(95))]}

NextSnap ==
  \/ \E a \in SnapArgs : ConfigureRoute("h2", "g1", a, FullRows)
  \/ \E b \in ReloadAnswers : ApiReload("g1", b, FullRows)
  \/ ExecuteSteps({"h1"}, {"g1"}, SpecReadings, {"created"})

SpecSnap == Init /\ [][NextSnap]_vars

(***************************************************************************)
(* SpecErr: one request thread that configures g1 and sends analyze,       *)
(* execute and start-monitor requests for g1 and for g2, with and without  *)
(* esp32Ip, and the monitoring thread                                      *)
(***************************************************************************)
\* The start-monitor body that names the greenhouse only.
NoIpBody == [PlainBody EXCEPT !.esp32Ip = ""]

\* The backend's answers to /latest in SpecErr: none, or a dry soil.
ErrReadings == {None, Some(Reading(Pct(52), Pct(25), Pct(50), 0))}

NextErr ==
  \/ ConfigureRoute("h1", "g1", SpecArgs, FullRows)
  \/ ExecuteSteps({"h1"}, GH, ErrReadings, {"created"})
  \/ \E g \in GH, r \in ErrReadings :
       pc["h1"] = "idle" /\ ApiAnalyze(g, r, HourOfDay)
  \/ \E body \in {SpecBody, NoIpBody} : StartSteps({"h1"}, GH, body, FullRows)
  \/ LoopSteps(ErrReadings, {None}, {"skipped"})
  \/ SinglePulseSteps(ErrReadings)

SpecErr == Init /\ [][NextErr]_vars

(***************************************************************************)
(* Claims on the decision (SpecDecide)                                     *)
(***************************************************************************)
\* The decision of the last analyze call, when it returned one.
HasDecision == resp.decision # None

Decision == Val(resp.decision)

\* cfg.maxPulses: the stored value, or the default analyze uses without config.
StoredMaxPulses == CfgGet(ConfigOf("g1"), "max_pulses", DEFAULT_MAX_PULSES)

PulseBounds(d) ==
  /\ 0 <= d.pulse_count /\ d.pulse_count <= StoredMaxPulses
  /\ (d.pulse_count = 0) <=> (d.needs_irrigation = FALSE)

\* C7 as stated: for every decision, 0 <= pulseCount <= cfg.maxPulses and
\* pulseCount = 0 iff needsIrrigation = false, for every configured maxPulses.
C7_PulseBoundsEveryMaxPulses == HasDecision => PulseBounds(Decision)

\* C7 amended: under a stored config whose maxPulses is at least 1 (configure
\* stores the default 15 for None and for 0, and a negative value as given),
\* 0 <= pulseCount <= cfg.maxPulses and pulseCount = 0 iff needsIrrigation =
\* false, for every pulse duration and every deficit.
C7_PulseBoundsPositiveMaxPulses ==
  (HasDecision /\ StoredMaxPulses >= 1) => PulseBounds(Decision)

\* C7 witness: a decision that needs more pulses than maxPulses allows and is
\* cut to maxPulses.
C7_Witness ==
  /\ HasDecision /\ Decision.needs_irrigation
  /\ StoredMaxPulses = 2 /\ Decision.pulse_count = 2
  /\ pulses_needed_of(Decision.target_moisture - Decision.current_moisture,
                      Decision.pulse_duration) > 2

\* The band of the plant type of the stored config ("default" without config).
ProfileOfConfig == get_ideal_moisture(CfgGet(ConfigOf("g1"), "plant_type", "default"))

TargetInBand(d) ==
  /\ ProfileOfConfig.min <= d.target_moisture
  /\ d.target_moisture <= ProfileOfConfig.max

\* C8 as stated: every decision computed from a reading has its targetMoisture
\* within [profile.min, profile.max] of the configured plant type, wherever
\* the target comes from.
C8_TargetInBandAlways ==
  (HasDecision /\ inp.reading # None) => TargetInBand(Decision)

\* C8 amended: a decision computed from a reading has its targetMoisture
\* within the band of the configured plant type when no targetMoisture was
\* supplied: configure then stores profile.ideal, and analyze without a stored
\* config takes the clamped Plant Knowledge Table value.  (A targetMoisture
\* given to configure, or taken from the backend by reload-config, is used as
\* it is.)
C8_TargetInBandWhenDefaulted ==
  (/\ HasDecision /\ inp.reading # None
   /\ inp.backend = None
   /\ (inp.args = None \/ Val(inp.args).target_moisture = None))
  => TargetInBand(Decision)

\* C8 witness: a lettuce greenhouse configured without targetMoisture, analyzed
\* on a reading: the decision's target is lettuce's ideal.
C8_Witness ==
  /\ HasDecision /\ inp.reading # None /\ inp.backend = None
  /\ inp.args # None /\ Val(inp.args).target_moisture = None
  /\ Val(inp.args).plant_type = "lettuce"
  /\ Decision.target_moisture = Pct(75)

(***************************************************************************)
(* Claims on the reading history (SpecApi)                                 *)
(***************************************************************************)
\* C9 as stated: the reading history of a greenhouse never holds more than 100
\* readings, after any sequence of configure, analyze and status calls,
\* whatever number of rows the backend returns.
C9_HistoryAtMost100 ==
  \A g \in DOMAIN reading_history : Len(reading_history[g]) <= HISTORY_KEEP

(***************************************************************************)
(* Claims on the pulse sequences (Spec, SpecTick)                          *)
(***************************************************************************)
\* The threads that have a POST /pump/activate for greenhouse g in flight.
InFlight(g) ==
  {w \in Workers : pc[w] = "inflight" /\ loc[w].g = g}
    \cup {m \in Monitors : mpc[m] = "pulse" /\ mloc[m].g = g}

\* C1 as stated: no two pump activations for the same greenhouse overlap in
\* time, in any interleaving of the monitoring thread's ticks and of
\* executeIrrigation calls.
C1_NoOverlappingActivations == \A g \in GH : Cardinality(InFlight(g)) <= 1

\* C2 as stated: every invocation of execute_irrigation, and every pulse the
\* monitoring thread dispatches, has posted exactly one report when it returns.
C2_ExactlyOneReport ==
  /\ \A w \in Workers :
       (pc[w] = "idle" /\ loc[w].invoked) => Len(loc[w].reports) = 1
  /\ \A m \in Monitors : mpc[m] = "pulsed" => Len(mloc[m].reports) = 1

\* C3 as stated: once an activation of a sequence failed (a status other than
\* 200, or a transport error) the sequence sends no further activation, and
\* it returns success = false with one report of status failed that carries
\* an error message.
C3_AbortAtFailingPulse ==
  \A w \in Workers :
    loc[w].failed =>
      /\ ~loc[w].sent_after_failure
      /\ pc[w] = "idle" =>
           /\ ~Val(loc[w].result).success
           /\ loc[w].reports =
                <<Report("failed", Val(loc[w].result).pulses_executed, TRUE)>>

\* C4 as stated: once every pulse sequence has returned, the status is idle
\* (error is left again before the return).
C4_IdleAfterEverySequence ==
  (\A w \in Workers : pc[w] \notin SeqPcs) => status = "idle"

\* C10 as stated: an execute_irrigation entered while a pulse sequence for the
\* same greenhouse is running is refused: it never has a pump activation in
\* flight.
C10_SecondInvocationRefused ==
  \A w \in Workers : loc[w].busy_at_entry => pc[w] # "inflight"

(***************************************************************************)
(* Claims on the monitoring thread (SpecGate)                              *)
(***************************************************************************)
\* C5 as stated: two prediction notifications that the backend accepted for a
\* greenhouse are at least PREDICTION_COOLDOWN seconds apart, over any
\* sequence of ticks and of start and stop of the monitoring.
C5_CooldownBetweenAccepted ==
  \A g \in DOMAIN pred_log :
    Len(pred_log[g]) = 2 => pred_log[g][2] - pred_log[g][1] >= PREDICTION_COOLDOWN

\* The request thread w returns from start_monitoring in this step.
StartReturns(w) == pc[w] \in {"sm_check", "sm_spawn"} /\ pc'[w] = "idle"

\* C6 as stated: when start_monitoring(g) returns, g is monitored and a
\* monitoring thread is alive that will go on to tick it (the stop event is
\* clear), whatever the monitoring thread is doing and whatever calls of
\* stop_monitoring came before.
C6_StartLeavesSupervisorRunning ==
  [][\A w \in Workers :
       StartReturns(w) =>
         /\ loc[w].g \in DOMAIN monitored_greenhouses'
         /\ ~stop_event'
         /\ \E m \in Monitors : mpc'[m] \notin {"unborn", "dead"}]_vars

(***************************************************************************)
(* Claims on the outcome of a sequence (Spec) and on the prediction gate   *)
(* (SpecGate)                                                              *)
(***************************************************************************)
\* C11: a sequence that has returned is reported 'success', and its result
\* has success = true, exactly when at least one of its pulses was answered
\* 200 by the actuator; a sequence with no such pulse is reported 'failed'.
C11_SuccessIffPulseFired ==
  \A w \in Workers :
    (pc[w] = "idle" /\ loc[w].reports # << >>) =>
      /\ (loc[w].reports[1].status = "success")
            <=> (loc[w].reports[1].pulse_count >= 1)
      /\ Val(loc[w].result).success <=> (Val(loc[w].result).pulses_executed >= 1)

\* last_prediction_time of g in the monitoring thread m.
LastPredictionAt(l, g) ==
  IF g \in DOMAIN l.last_prediction_time THEN Some(l.last_prediction_time[g])
  ELSE None

\* C12: a tick of the monitoring thread changes last_prediction_time of a
\* greenhouse only when the backend accepted a notification for it in that
\* tick, and then sets it to the time of the tick; a skipped or failed
\* answer, and a tick that sends nothing, leave it unchanged.
C12_AdvanceOnlyOnAccepted ==
  [][\A m \in Monitors, g \in GH :
       (mpc[m] = "scan" /\ LastPredictionAt(mloc[m], g)' # LastPredictionAt(mloc[m], g))
         => /\ LastPredictionAt(mloc[m], g)' = Some(now)
            /\ g \in DOMAIN pred_log'
            /\ pred_log'[g][Len(pred_log'[g])] = now
            /\ \/ pred_log' # pred_log
               \/ pred_log[g] = <<now, now>>]_vars

\* C12: a monitoring thread holds a time of accepted notification for g1.
C12_Witness ==
  \E m \in Monitors : LastPredictionAt(mloc[m], "g1") # None

\* C13: a sequence whose re-read after pulse k broke the loop returns
\* pulses_executed = k and success = true, and has posted exactly one report,
\* 'success' with pulse_count = k.
C13_EarlyStopCounts ==
  \A w \in Workers :
    (pc[w] = "idle" /\ loc[w].stopped_after > 0) =>
      /\ Val(loc[w].result).pulses_executed = loc[w].stopped_after
      /\ Val(loc[w].result).success
      /\ loc[w].reports = <<Report("success", loc[w].stopped_after, FALSE)>>

(***************************************************************************)
(* Claims on the monitoring threads (SpecMon)                              *)
(***************************************************************************)
\* C14: when stop_monitoring() returns the monitored set is empty, and a
\* monitoring thread that was alive when stop_monitoring() set the stop event
\* never begins another scan: it leaves its loop at the next test of the event.
C14_StopEndsSupervisor ==
  [][/\ \A w \in Workers :
         (pc[w] = "stop_clear" /\ pc'[w] = "idle") => DOMAIN monitored_greenhouses' = {}
     /\ \A m \in Monitors :
         mloc[m].signalled => ~(mpc[m] = "loop" /\ mpc'[m] = "scan")]_vars

\* C15: at most one monitoring thread is alive.
C15_OneSupervisor ==
  Cardinality({m \in Monitors : is_alive(m)}) <= 1

(***************************************************************************)
(* Claims on the analysis (SpecDecide)                                     *)
(***************************************************************************)
\* The decision of the analysis is the same at every hour of the wall clock.
DecisionIgnoresClock ==
  \A h \in DecideHours :
    \E predictions \in predict_moisture(reading_history, "g1") :
      Decision = analyze_irrigation_need(ConfigOf("g1"), inp.reading, predictions, h)

\* The history of g1 is what configure loaded, none when g1 was not configured.
HistoryAsConfigured ==
  IF inp.args = None THEN "g1" \notin DOMAIN reading_history
  ELSE reading_history["g1"] = load_historical_data(<< >>, inp.rows)

\* C16: the decision an analysis returns depends on the reading, the config
\* and the forecast only, not on the hour of the wall clock, and the analysis
\* leaves the history as it was.
C16_DecisionPure ==
  HasDecision => (DecisionIgnoresClock /\ HistoryAsConfigured)

\* The decision analyze_irrigation_need returns on the same reading and config
\* when predict_moisture returns None.
DecisionWithoutForecast ==
  analyze_irrigation_need(ConfigOf("g1"), inp.reading, None, inp.hour)

\* C17: the decision has the needs_irrigation, urgency, confidence,
\* pulse_count, pulse_duration, target_moisture and recommendation it has
\* without a forecast; a forecast only sets predicted_moisture, to the mean of
\* its first 6 values, and the LSTM note of the recommendation.
C17_ForecastOnlyAnnotates ==
  HasDecision =>
    /\ \A field \in {"needs_irrigation", "urgency", "confidence", "pulse_count",
                      "pulse_duration", "target_moisture", "current_moisture",
                      "recommendation"} :
         Decision[field] = DecisionWithoutForecast[field]
    /\ \/ Decision.predicted_moisture = None /\ ~Decision.lstm_note
       \/ \E f \in Forecasts :
            Decision.predicted_moisture =
              Some((f[1] + f[2] + f[3] + f[4] + f[5] + f[6]) \div 6)

\* C17: an analysis that found irrigation needed was made with a forecast.
C17_Witness ==
  HasDecision /\ Decision.needs_irrigation /\ Decision.predicted_moisture # None
    /\ Decision.lstm_note

(***************************************************************************)
(* Claims on reload-config                                                 *)
(***************************************************************************)
\* The target the backend's record bc stands for: soilMoistureIdeal, else the
\* midpoint of soilMoistureMin and soilMoistureMax.
ReloadedTarget(bc) ==
  IF bc.soilMoistureIdeal # None THEN Val(bc.soilMoistureIdeal)
  ELSE (bc.soilMoistureMin + bc.soilMoistureMax) \div 2

\* C18: after a reload the stored config is the config stored before it with
\* target_moisture and plant_type taken from the backend's record, and every
\* other field (esp32_url, pulse_duration, pulse_wait, max_pulses,
\* auto_irrigate, check_interval) as it was.
C18_ReloadPreservesOtherFields ==
  (resp.op = "reload" /\ resp.code = 200) =>
    irrigation_config["g1"] =
      [configure_greenhouse_config(Val(inp.args)) EXCEPT
         !.target_moisture = ReloadedTarget(Val(inp.backend)),
         !.plant_type = Val(inp.backend).plantType]

\* C19: an analysis returns a decision against the target stored at that
\* time, the reloaded one after a reload, and a reload leaves the monitored
\* set, the stop event and the monitoring threads as they were.
C19_ReloadKeepsMonitoring ==
  [][/\ (resp'.op = "analyze" /\ resp'.decision # None
           /\ Val(resp'.decision) # ErrorDecision)
         => Val(resp'.decision).target_moisture
              = irrigation_config'["g1"].target_moisture
     /\ (resp'.op = "reload" /\ resp'.code = 200 /\ UNCHANGED <<pc, loc>>
           /\ irrigation_config' # irrigation_config)
         => /\ irrigation_config'["g1"].target_moisture \in {Pct(72), Pct(50)}
            /\ UNCHANGED <<monitored_greenhouses, stop_event, monitor_thread,
                           mpc, mloc>>]_vars

\* C19: g1 is monitored by a live thread, its target was reloaded from 50 to
\* 72, and an analysis has returned a decision against 72.
C19_Witness ==
  /\ "g1" \in DOMAIN monitored_greenhouses
  /\ monitored_greenhouses["g1"].config.target_moisture = Pct(50)
  /\ \E m \in Monitors : is_alive(m) /\ monitor_thread = m
  /\ resp.op = "analyze" /\ HasDecision /\ Decision.target_moisture = Pct(72)

(***************************************************************************)
(* Claims on configuration errors (SpecErr)                                *)
(***************************************************************************)
\* The thread w returns the error 400 of the execute or start-monitor route
\* in this step.
RouteRefuses(w) ==
  /\ loc'[w] # loc[w] /\ loc'[w].result # None
  /\ Val(loc'[w].result).code = 400

\* The analyze route returns its error 400 in this step.
AnalyzeRefuses == resp' # resp /\ resp'.op = "analyze" /\ resp'.code = 400

\* C20: an analyze or execute request for a greenhouse without config, and a
\* start-monitor request without esp32Ip for one, is answered with an error
\* and leaves the configs, the histories, the monitored set, the status,
\* last_irrigation and the monitoring threads as they were, and sends no
\* activation: the request thread is not in a pulse sequence.
C20_ConfigErrorChangesNothing ==
  [][(AnalyzeRefuses \/ \E w \in Workers : RouteRefuses(w))
       => /\ UNCHANGED <<irrigation_config, reading_history,
                         monitored_greenhouses, status, last_irrigation,
                         monitor_thread, stop_event, mpc, mloc, pc>>
          /\ \A w \in Workers : pc'[w] = "idle"]_vars

\* C20: with g1 configured and monitored by a live thread, a request for g2,
\* which has no config, was refused.
C20_Witness ==
  /\ "g1" \in DOMAIN monitored_greenhouses /\ "g2" \notin DOMAIN irrigation_config
  /\ \E m \in Monitors : is_alive(m)
  /\ \/ resp.op = "analyze" /\ resp.code = 400
     \/ loc["h1"].g = "g2" /\ loc["h1"].result # None
          /\ Val(loc["h1"].result).code = 400

(***************************************************************************)
(* Claims on the decision's cases (SpecDecide)                             *)
(***************************************************************************)
\* The number of readings the history of g1 holds.
HistoryLen ==
  IF "g1" \in DOMAIN reading_history THEN Len(reading_history["g1"]) ELSE 0

\* The decision asks for no irrigation, with confidence 0.
RefusesToIrrigate(d) ==
  ~d.needs_irrigation /\ d.confidence = 0 /\ d.pulse_count = 0

\* C21 as stated: when the reading is missing or the history holds fewer than
\* 24 readings, the decision has needs_irrigation = false, confidence 0 and
\* pulse_count 0.
C21_InsufficientDataRefuses ==
  (HasDecision /\ (inp.reading = None \/ HistoryLen < 24))
    => RefusesToIrrigate(Decision)

\* C21 amended: when the reading is missing the decision has
\* needs_irrigation = false, confidence 0 and pulse_count 0; when the reading
\* is there and the history holds fewer than 24 readings the decision is the
\* one made without a forecast.
C21_MissingReadingRefuses ==
  HasDecision =>
    /\ inp.reading = None => RefusesToIrrigate(Decision)
    /\ (inp.reading # None /\ HistoryLen < 24)
         => Decision = DecisionWithoutForecast

\* C21: an analysis was made when the backend had no reading.
C21_Witness ==
  HasDecision /\ inp.reading = None /\ resp.op = "analyze"

(***************************************************************************)
(* Claims on the execute route (Spec)                                      *)
(***************************************************************************)
\* C22: execute_irrigation called by the route with force = true (without a
\* decision) goes on to activate the pump whatever its analysis says; called
\* with the route's decision (force = false) it activates the pump only when
\* that decision has needs_irrigation.
C22_ForceIgnoresAnalysis ==
  [][\A w \in Workers :
       (pc[w] = "execute" /\ pc'[w] # "execute") =>
         IF loc[w].decision = None THEN pc'[w] = "post"
         ELSE pc'[w] = "post" => Val(loc[w].decision).needs_irrigation]_vars

(***************************************************************************)
(* Claims on the classification and the dosing (SpecDecide)                *)
(***************************************************************************)
Deficit(d) == d.target_moisture - d.current_moisture

\* C23: a decision made on a reading has, for deficit <= 0, needs_irrigation
\* false, pulse_count 0, confidence 0.85 and urgency low; for deficit > 0 it
\* has needs_irrigation true and (critical, 0.95) above 30, (high, 0.90)
\* above 15, (medium, 0.85) above 5, (low, 0.80) otherwise, the deficits 5,
\* 15 and 30 themselves falling in the lower class.
C23_ClassificationByDeficit ==
  (HasDecision /\ inp.reading # None) =>
    LET d == Decision
        x == Deficit(d)
        class == <<d.urgency, d.confidence>>
    IN IF x <= 0
       THEN ~d.needs_irrigation /\ d.pulse_count = 0 /\ class = <<"low", 85>>
       ELSE /\ d.needs_irrigation
            /\ x > Pct(30) => class = <<"critical", 95>>
            /\ (Pct(15) < x /\ x <= Pct(30)) => class = <<"high", 90>>
            /\ (Pct(5) < x /\ x <= Pct(15)) => class = <<"medium", 85>>
            /\ x <= Pct(5) => class = <<"low", 80>>

\* C23 witness: a decision on a deficit of exactly 30 classified high.
C23_Witness ==
  /\ HasDecision /\ inp.reading # None
  /\ Deficit(Decision) = Pct(30) /\ Decision.urgency = "high"

\* cfg.pulseDurationSec: the stored value, or the default without config.
StoredPulseDuration ==
  CfgGet(ConfigOf("g1"), "pulse_duration", DEFAULT_PULSE_DURATION)

\* ceil(a / b) for a >= 0 and b > 0.
CeilDiv(a, b) == (a + b - 1) \div b

\* C24 as stated: for every deficit > 0 pulse_count is
\* clamp(ceil(deficit / g) + 1, 1, max_pulses) with g = 1.5 * pulse_duration,
\* and the decision's pulse_duration is the config's.
C24_PulseCountCeil ==
  (HasDecision /\ Deficit(Decision) > 0) =>
    /\ Decision.pulse_count =
         Max2(1, Min2(CeilDiv(2 * Deficit(Decision), 3 * StoredPulseDuration) + 1,
                      StoredMaxPulses))
    /\ Decision.pulse_duration = StoredPulseDuration

\* C24 amended: for every deficit > 0 pulse_count is
\* max(1, min(floor(deficit / g) + 1, max_pulses)) with g = 1.5 *
\* pulse_duration, and the decision's pulse_duration is the config's.
C24_PulseCountFloor ==
  (HasDecision /\ Deficit(Decision) > 0) =>
    /\ Decision.pulse_count =
         Max2(1, Min2(((2 * Deficit(Decision)) \div (3 * StoredPulseDuration)) + 1,
                      StoredMaxPulses))
    /\ Decision.pulse_duration = StoredPulseDuration

\* C24 witness: a deficit that is not a multiple of g, dosed below max_pulses.
C24_Witness ==
  /\ HasDecision /\ Deficit(Decision) = Pct(2)
  /\ StoredPulseDuration = Sec(2) /\ StoredMaxPulses = 3
  /\ Decision.pulse_count = 1

(***************************************************************************)
(* Claims on the prediction notifications (SpecPredict)                    *)
(***************************************************************************)
\* C25: with drop6h = current moisture - forecast[5], the notification posted
\* is moisture_drop if drop6h > 15 and forecast[5] < target; else
\* temperature_rise if air temperature > 30 and drop6h > 10; else
\* humidity_drop if air humidity < 40 and drop6h > 8; otherwise nothing is
\* posted; a forecast that is missing or shorter than 6 posts nothing.
C25_FirstMatchWins ==
  resp.op = "prediction" =>
    IF resp.predictions = None \/ Len(Val(resp.predictions)) < 6
    THEN resp.kind = "none"
    ELSE inp.reading # None =>
      LET r == Val(inp.reading)
          forecast5 == Val(resp.predictions)[6]
          drop6h == r.soil_moisture - forecast5
          target == irrigation_config["g1"].target_moisture
          moisture == drop6h > Pct(15) /\ forecast5 < target
          temperature == r.air_temperature > Pct(30) /\ drop6h > Pct(10)
          humidity == r.air_humidity < Pct(40) /\ drop6h > Pct(8)
      IN /\ moisture => resp.kind = "moisture_drop"
         /\ (~moisture /\ temperature) => resp.kind = "temperature_rise"
         /\ (~moisture /\ ~temperature /\ humidity) => resp.kind = "humidity_drop"
         /\ (~moisture /\ ~temperature /\ ~humidity) => resp.kind = "none"

\* C25 witness: a temperature_rise notification on a reading whose humidity
\* and drop also match the humidity_drop test.
C25_Witness ==
  /\ resp.op = "prediction" /\ resp.kind = "temperature_rise"
  /\ inp.reading # None /\ Val(inp.reading).air_humidity < Pct(40)

(***************************************************************************)
(* Claims on the monitoring thread's pulses (SpecTick)                     *)
(***************************************************************************)
\* The monitoring thread m goes on to _execute_single_pulse in this step.
Dispatches(m) == mpc[m] = "scan" /\ mpc'[m] = "dispatch"

\* C26: the monitoring thread calls for a pulse on a greenhouse only when the
\* decision of that pass has needs_irrigation and the auto_irrigate flag of
\* the greenhouse's config is true; a request to the ESP32 is sent by the
\* thread only on such a call.
C26_PulseOnlyWhenNeededAndAuto ==
  [][\A m \in Monitors :
       /\ Dispatches(m) =>
            /\ Val(mloc'[m].decision).needs_irrigation
            /\ mloc'[m].g \in DOMAIN irrigation_config
            /\ irrigation_config[mloc'[m].g].auto_irrigate
       /\ (mpc[m] # "pulse" /\ mpc'[m] = "pulse") => mpc[m] = "dispatch"]_vars

\* C27: the pulse the monitoring thread calls for runs the sequence of
\* execute_irrigation for the decision of the pass: when the ESP32 accepts the
\* activation and nothing stops the sequence, the thread sends the decision's
\* pulse_count activations, and its one report carries that many pulses.
C27_TickRunsPulseSequence ==
  \A m \in Monitors :
    (mpc[m] = "pulsed" /\ mloc[m].reports # << >>
       /\ mloc[m].reports[1].status = "success") =>
      /\ Len(mloc[m].reports) = 1
      /\ mloc[m].reports[1].pulse_count = Val(mloc[m].decision).pulse_count

(***************************************************************************)
(* Claims on the monitoring loop (SpecMon)                                 *)
(***************************************************************************)
\* C28: a monitoring thread ends only at the loop's test of the stop event,
\* with the event set: no start_monitoring or stop_monitoring(g) that lands
\* during a scan or between the scan and the computation of the interval
\* ends it.
C28_LoopEndsOnlyOnStop ==
  [][\A m \in Monitors :
       (mpc[m] # "dead" /\ mpc'[m] = "dead") => (mpc[m] = "loop" /\ stop_event)]_vars

\* C29: the interval the monitoring thread sleeps after a scan is the least
\* check_interval of the monitored greenhouses, DEFAULT_CHECK_INTERVAL (300 s)
\* when none is monitored.
C29_SleepsLeastCheckInterval ==
  [][\A m \in Monitors :
       (mpc[m] # "sleep" /\ mpc'[m] = "sleep") =>
         mloc'[m].check_interval =
           IF DOMAIN monitored_greenhouses = {} THEN DEFAULT_CHECK_INTERVAL
           ELSE SetMin({monitored_greenhouses[g].config.check_interval :
                          g \in DOMAIN monitored_greenhouses})]_vars

(***************************************************************************)
(* Claims on the status (Spec)                                             *)
(***************************************************************************)
\* The edges idle -> analyzing -> irrigating <-> waiting -> idle, any state
\* -> error, error -> idle.
StatusEdges ==
  {<<"idle", "analyzing">>, <<"analyzing", "irrigating">>,
   <<"irrigating", "waiting">>, <<"waiting", "irrigating">>,
   <<"waiting", "idle">>, <<"error", "idle">>}
    \cup {<<x, "error">> : x \in {"idle", "analyzing", "irrigating", "waiting"}}

\* C30: every change of the status is one of StatusEdges: execute_irrigation
\* enters irrigating from analyzing and no change skips a state.
C30_StatusFollowsEdges ==
  [][status' # status => <<status, status'>> \in StatusEdges]_vars

(***************************************************************************)
(* Claims on the reports of a sequence (SpecReport)                        *)
(***************************************************************************)
\* C31: whatever the backend answers to the report (201, another status, a
\* transport error or timeout), a sequence that ends after its pulses returns
\* the complete result with its pulses_executed, sets last_irrigation and
\* leaves the status idle, a sequence whose activation raised returns the
\* error result; each posts its report once.
C31_ReportFailureChangesNothing ==
  [][\A w \in {"h1"} :
       /\ (pc[w] = "stabilize" /\ pc'[w] = "idle") =>
            /\ loc'[w].result =
                 Some(Result(200, TRUE, loc[w].pulses_executed, "complete"))
            /\ status' = "idle"
            /\ last_irrigation'[loc[w].g] = now
            /\ Len(loc'[w].reports) = 1
       /\ (pc[w] = "inflight" /\ pc'[w] = "idle") =>
            /\ loc'[w].result =
                 Some(Result(200, FALSE, loc[w].pulses_executed, "error"))
            /\ status' = "error"
            /\ last_irrigation' = last_irrigation
            /\ Len(loc'[w].reports) = 1]_vars

\* C31 witness: a sequence that returned the complete result although the
\* POST of its report raised.
C31_Witness ==
  /\ pc["h1"] = "idle" /\ loc["h1"].result # None
  /\ Val(loc["h1"].result).message = "complete"
  /\ Val(loc["h1"].result).pulses_executed = 2
  /\ loc["h1"].report_answers = <<"raised">>

\* C32 (Spec): within the sequence of a request thread the activation of pulse
\* k+1 is requested only after the request of pulse k has returned and the
\* wait that follows it is over, and the report is posted when the sequence
\* ends, never while pulses are still to come.
C32_PulsesInSequenceThenReport ==
  [][\A w \in Workers :
       /\ (pc[w] # "inflight" /\ pc'[w] = "inflight") => pc[w] = "post"
       /\ (pc[w] # "post" /\ pc'[w] = "post") =>
            \/ pc[w] = "execute" /\ loc'[w].i = 0
            \/ pc[w] = "waiting" /\ loc'[w].i = loc[w].i + 1
       /\ (pc[w] # "waiting" /\ pc'[w] = "waiting") => pc[w] = "inflight"
       /\ pc'[w] \in SeqPcs => loc'[w].reports = << >>
       /\ Len(loc'[w].reports) > Len(loc[w].reports) =>
            (pc[w] \in SeqPcs /\ pc'[w] = "idle")]_vars

\* C32 witness: the second activation of a sequence is in flight and no
\* report has been posted.
C32_Witness ==
  \E w \in Workers :
    pc[w] = "inflight" /\ loc[w].i = 1 /\ loc[w].reports = << >>

(***************************************************************************)
(* Claims on the config of a running sequence (SpecSnap)                   *)
(***************************************************************************)
\* The dicts a configure or a reload-config stores in place of old.
ReplacingConfigs(old) ==
  {configure_greenhouse_config(a) : a \in SnapArgs}
    \cup {configure_greenhouse_config(reload_args(old, b, old.esp32_url.ip)) :
            b \in BackendConfigs}

\* C33: a configure or reload-config that lands while a sequence is running
\* stores a whole new config dict, and the running sequence goes on with what
\* it captured when it started: each activation it sends uses the endpoint,
\* pulse count, pulse duration, wait and target of its start.
C33_RunningSequenceKeepsSnapshot ==
  [][/\ ("g1" \in DOMAIN irrigation_config
           /\ irrigation_config'["g1"] # irrigation_config["g1"]) =>
          irrigation_config'["g1"] \in ReplacingConfigs(irrigation_config["g1"])
     /\ \A w \in Workers :
          (pc'[w] \in SeqPcs /\ loc'[w].used # None) =>
            /\ loc'[w].used = loc'[w].started
            /\ pc[w] \in SeqPcs => loc'[w].started = loc[w].started]_vars

\* C33 witness: the second activation of a sequence is in flight to the
\* endpoint of its start after a configure has stored another endpoint.
C33_Witness ==
  /\ pc["h1"] = "inflight" /\ loc["h1"].i = 1
  /\ Val(loc["h1"].used).esp32_url # irrigation_config["g1"].esp32_url

(***************************************************************************)
(* Claims on the order of the reading history (SpecApi)                    *)
(***************************************************************************)
\* C34: every change of the history of a greenhouse is an insert at the end
\* that keeps the readings before it in their order, and removes nothing
\* but, from a history that holds HISTORY_KEEP readings or more, its oldest
\* reading.
C34_InsertEvictsOnlyOldest ==
  [][\A g \in DOMAIN reading_history :
       reading_history'[g] # reading_history[g] =>
         \E r \in ApiReadings \ {None} :
           LET h == reading_history[g]
           IN reading_history'[g] =
                IF Len(h) < HISTORY_KEEP THEN Append(h, Val(r).ts)
                ELSE Append(Tail(h), Val(r).ts)]_vars

(***************************************************************************)
(* Claims on the monitoring of a stopped greenhouse (SpecMon)              *)
(***************************************************************************)
\* The monitoring thread m runs the body of its for loop on greenhouse g in
\* this step: the analysis, the prediction gate, the decision to pulse.
Ticks(m, g) ==
  /\ mpc[m] = "scan" /\ g \in DOMAIN mloc[m].todo
  /\ \/ g \notin DOMAIN mloc'[m].todo
     \/ mpc'[m] = "dispatch" /\ mloc'[m].g = g

\* C35: the monitoring thread analyses a greenhouse only while it is
\* monitored: after stop_monitoring(g) has removed g, and until a later
\* start_monitoring(g), no pass of the loop works on g, the scan that was
\* under way at the removal included.
C35_NoTickAfterStop ==
  [][\A m \in Monitors, g \in GH :
       Ticks(m, g) => g \in DOMAIN monitored_greenhouses]_vars

(***************************************************************************)
(* Claims on the config the monitoring thread works with (SpecTick)        *)
(***************************************************************************)
\* C36: the config a scan of the monitoring thread takes for a greenhouse
\* (auto_irrigate, esp32_url, pulse_duration and target_moisture for the
\* pulse, the report and the prediction gate) is the stored config, the one
\* analyze_irrigation_need uses, whatever configure or reload-config stored
\* since start_monitoring.
C36_ScanTakesStoredConfig ==
  [][\A m \in Monitors :
       (mpc[m] = "loop" /\ mpc'[m] = "scan") =>
         \A g \in DOMAIN mloc'[m].todo :
           g \in DOMAIN irrigation_config =>
             mloc'[m].todo[g].config = irrigation_config[g]]_vars

(***************************************************************************)
(* Claims on last_irrigation (SpecTick)                                    *)
(***************************************************************************)
\* last_irrigation of g is written with a new value in this step.
LastIrrigationUpdated(g) ==
  /\ g \in DOMAIN last_irrigation'
  /\ g \notin DOMAIN last_irrigation \/ last_irrigation'[g] # last_irrigation[g]

\* C37: last_irrigation of a greenhouse is updated only by a sequence of
\* execute_irrigation in which the ESP32 accepted at least one activation, or
\* by a pulse of the monitoring thread that the ESP32 accepted.
C37_LastIrrigationOnlyOnAcceptedPulse ==
  [][\A g \in GH :
       LastIrrigationUpdated(g) =>
         \/ \E w \in Workers :
              /\ pc[w] = "stabilize" /\ pc'[w] = "idle" /\ loc[w].g = g
              /\ loc[w].pulses_executed >= 1
         \/ \E m \in Monitors :
              /\ mpc[m] = "pulse" /\ mpc'[m] = "pulsed" /\ mloc[m].g = g
              /\ mloc'[m].reports[Len(mloc'[m].reports)].status = "success"]_vars

(***************************************************************************)
(* Claims on the counts of a sequence (Spec)                               *)
(***************************************************************************)
\* C38: when a sequence of execute_irrigation returns, it has sent at most
\* decision.pulse_count activations, pulses_executed of its result is the
\* number of activations the ESP32 accepted, total_duration is
\* pulses_executed * pulse_duration, and the report carries pulses_executed
\* as pulseCount and total_duration * 1000 as durationMs.
C38_CountsOfASequence ==
  [][\A w \in Workers :
       (pc[w] \in {"inflight", "stabilize"} /\ pc'[w] = "idle") =>
         LET r == Val(loc'[w].result)
             p == SequenceParams(w)
             report == loc'[w].reports[Len(loc'[w].reports)]
         IN /\ loc'[w].sent <= p.pulse_count
            /\ r.pulses_executed = loc'[w].accepted
            /\ 0 <= r.pulses_executed /\ r.pulses_executed <= p.pulse_count
            /\ loc'[w].total_duration = r.pulses_executed * p.pulse_duration
            /\ report.pulse_count = r.pulses_executed
            /\ loc'[w].report_duration_ms = 10 * loc'[w].total_duration]_vars

\* C38 witness: a sequence that sent two activations of which the ESP32
\* accepted one has returned.
C38_Witness ==
  \E w \in Workers :
    /\ pc[w] = "idle" /\ loc[w].result # None
    /\ loc[w].sent = 2 /\ loc[w].accepted = 1
    /\ Val(loc[w].result).pulses_executed = 1

(***************************************************************************)
(* Claims on concurrent fetches of readings (SpecHist)                     *)
(***************************************************************************)
\* The readings of the history of g1 that were fetched from /latest (the
\* loaded rows have the time stamp 0).
FetchedInHistory ==
  IF "g1" \in DOMAIN reading_history
  THEN Cardinality({i \in 1..Len(reading_history["g1"]) :
                     reading_history["g1"][i] # 0})
  ELSE 0

\* C39: when the monitoring thread and the request thread are both outside
\* get_current_reading, every reading they have fetched for the greenhouse
\* is in its history (the fetched readings are too few to be evicted as the
\* oldest beyond HISTORY_KEEP).
C39_NoReadingLost ==
  (pc["h1"] = "idle" /\ mpc["m1"] \notin {"gcr_cut", "gcr_assign"}) =>
    FetchedInHistory = Len(loc["h1"].fetched) + Len(mloc["m1"].fetched)

(***************************************************************************)
(* Claims on the service status under concurrent sequences (Spec)          *)
(***************************************************************************)
\* C40: whenever a pulse sequence of execute_irrigation is in flight for any
\* greenhouse, the service status is irrigating or waiting: a sequence that
\* finishes for one greenhouse does not make it idle while a sequence for
\* another greenhouse still runs.
C40_StatusWhileSequenceInFlight ==
  (\E w \in Workers : pc[w] \in SeqPcs) => status \in {"irrigating", "waiting"}
====
